---- MODULE Spec2Model ----
(***************************************************************************)
(* State-machine model of NodeDebugTTDAdapter (src/src/nodeDebugTTDAdapter *)
(* .ts) and of ensureTraceTarget (src/unnamed/part_000).                   *)
(*                                                                         *)
(* The adapter runs on one event loop.  Every action below is one turn of  *)
(* that loop: a client request, a protocol event, a timer callback or the  *)
(* settling of a promise, together with the micro-tasks it triggers.       *)
(***************************************************************************)
EXTENDS Integers, Sequences, FiniteSets, TLC

(***************************************************************************)
(* Bounds of the model.                                                    *)
(***************************************************************************)
\* number of stepBack / reverseContinue requests the client sends
MaxRequests == 3
\* longest runtimeArgs list of a launch request
MaxArgs == 2
\* number of Debugger.paused events the runtime sends
MaxPaused == 2
\* longest list of responses of one addBreakpoints call
MaxResponses == 1
\* number of configurationDone requests the client sends
MaxConfigDone == 2
\* terminateSession calls in a session
MaxTerminate == 2
\* stderr chunks of the spawned process in a session
MaxChunks == 2

(***************************************************************************)
(* JavaScript values.                                                      *)
(***************************************************************************)
JSUndefined == [t |-> "undefined"]
JSStr(s) == [t |-> "string", s |-> s]
JSBool(b) == [t |-> "boolean", b |-> b]
\* the outcome of an evaluation that threw a TypeError
JSThrows == [t |-> "throws"]

\* ToBoolean of the values above
Truthy(v) ==
    CASE v.t = "undefined" -> FALSE
      [] v.t = "string" -> v.s # ""
      [] v.t = "boolean" -> v.b
      [] v.t = "number" -> v.n # 0
      [] OTHER -> FALSE

(***************************************************************************)
(* Strings that the code inspects character by character are sequences of  *)
(* characters.                                                             *)
(***************************************************************************)
TTDebugFlag == <<"-", "-", "t", "t", "-", "d", "e", "b", "u", "g">>
ReplayDebugFlag ==
    <<"-", "-", "r", "e", "p", "l", "a", "y", "-", "d", "e", "b", "u", "g">>

\* String.prototype.startsWith
startsWith(str, prefix) ==
    /\ Len(str) >= Len(prefix)
    /\ \A i \in 1..Len(prefix) : str[i] = prefix[i]

\* Array.prototype.some / every with the predicate "starts with prefix",
\* evaluated left to right as the runtime does
RECURSIVE someStartsWith(_, _)
someStartsWith(arr, prefix) ==
    IF arr = <<>> THEN FALSE
    ELSE IF startsWith(Head(arr), prefix) THEN TRUE
    ELSE someStartsWith(Tail(arr), prefix)

RECURSIVE everyStartsWith(_, _)
everyStartsWith(arr, prefix) ==
    IF arr = <<>> THEN TRUE
    ELSE IF ~startsWith(Head(arr), prefix) THEN FALSE
    ELSE everyStartsWith(Tail(arr), prefix)

(***************************************************************************)
(* Inputs.                                                                 *)
(***************************************************************************)
\* runtime arguments a launch request may carry
ArgPool ==
    { TTDebugFlag,
      TTDebugFlag \o <<"=", "x">>,
      ReplayDebugFlag \o <<"=", "d">>,
      <<"-", "-", "t", "t">> }

RECURSIVE SeqsUpTo(_, _)
SeqsUpTo(S, n) ==
    IF n = 0 THEN {<<>>}
    ELSE LET shorter == SeqsUpTo(S, n - 1)
         IN shorter \cup {Append(s, x) : s \in shorter, x \in S}

RuntimeArgLists == SeqsUpTo(ArgPool, MaxArgs)

\* args.runtimeExecutable: absent, or a name / path
RuntimeExecutables == {JSUndefined, JSStr(""), JSStr("node-chakracore")}

\* args.program after lines 239-257: absent, or an absolute normalized path,
\* held as its list of segments below the root
ProgramPaths == {JSUndefined, JSStr(<<"proj", "app.js">>), JSStr(<<"app.js">>)}

VARIABLES
    \* ---- the session
    \* args.adapterID of initialize
    adapterID,
    \* a launch request was handled
    launched,
    \* the protocol connection exists (this.chrome)
    chrome,
    \* _attachMode and _launchAttachArgs, which the base adapter records
    attachMode,
    launchAttachArgs,
    \* doAttach is suspended at `await super.doAttach`
    doAttachPending,
    \* ---- flags relevant during init (lines 44-47)
    continueAfterConfigDone,
    entryPauseEvent,
    waitingForEntryPauseEvent,
    finishedConfig,
    expectingStopReason,
    isTerminated,
    \* ---- the interval timer of beginWaitingForDebuggerPaused and its count
    pollTimer,
    count,
    \* ---- getNodeProcessDetailsIfNeeded
    \* the Runtime.evaluate calls awaiting their response
    evals,
    loggedTargetVersion,
    nodeProcessId,
    \* ---- what the session did towards client and runtime
    \* initialized notifications sent
    initializedEvents,
    \* Debugger.resume commands sent by continue(internal)
    continues,
    \* the pauses handed to the base adapter's onPaused: how many, and the
    \* last one with its stop reason
    clientPauses,
    \* Debugger.paused events and configurationDone requests received so far
    npaused,
    nconfigDone,
    \* the parity of the number of addBreakpoints calls completed so far: it
    \* makes every completion a step that changes the state
    bpParity,
    \* ---- termination
    \* _restartMode (line 342), and the port doAttach was called with
    restartMode,
    port,
    \* _inShutdown of the base adapter
    inShutdown,
    \* what killNodeProcess did with each process id it looked at: handed it
    \* to utils.killTree, or logged that it is not killed
    kills,
    \* terminateSession calls so far, and the restart descriptor the last one
    \* handed to super.terminateSession
    nterminate,
    restartArgs,
    \* the reason the last terminateSession call was given
    terminateReason,
    \* the ids of the destroyed execution contexts whose event the listener
    \* of hookConnectionEvents ignored
    ignoredContexts,
    \* ---- the launch request
    \* the promise launchInInternalConsole returned: "none" before the call,
    \* then "resolved" or "rejected"
    launchPromise,
    \* the error a launch request was rejected with before it spawned
    launchError,
    \* ---- liveness polling of the debuggee
    \* startPollingForNodeTermination calls so far, and the intervals they
    \* set that are not cleared yet
    nodeTerminationPolls,
    livenessTimers,
    \* whether process.kill(pid, 0) finds the debuggee
    processAlive,
    \* ---- stderr of the spawned process
    handlingEarlyNodeMsgs,
    captureFromStd,
    \* the stderr chunks received so far, each with the output event sent
    \* for it (JSUndefined where none was sent)
    stderrLog,
    \* ---- time-travel settings recorded by launch
    runtimeArgsForTTD,
    runtimeExecutableForTTD,
    programPathForTTD,
    \* ---- trace capture
    pendingTTDLaunch,
    idGenerator,
    \* the capture requests started, by launch id + 1
    launches,
    \* the "ttdLaunch" status events sent to the client, in order
    events,
    \* the TimeTravel commands sent to the runtime, in order
    calls,
    \* the stepBack / reverseContinue requests of the client, in order
    reqs

ttdVars == <<runtimeArgsForTTD, runtimeExecutableForTTD, programPathForTTD,
             pendingTTDLaunch, idGenerator, launches, events, calls, reqs>>

termVars == <<restartMode, port, inShutdown, kills, nterminate, restartArgs,
              terminateReason, ignoredContexts>>

launchVars == <<launchPromise, launchError>>

liveVars == <<nodeTerminationPolls, livenessTimers, processAlive>>

stderrVars == <<handlingEarlyNodeMsgs, captureFromStd, stderrLog>>

sessVars == <<adapterID, launched, chrome, attachMode, launchAttachArgs,
              doAttachPending, continueAfterConfigDone, entryPauseEvent,
              waitingForEntryPauseEvent, finishedConfig, expectingStopReason,
              isTerminated, pollTimer, count, evals, loggedTargetVersion,
              nodeProcessId, initializedEvents, continues, clientPauses,
              npaused, nconfigDone, bpParity>>

vars == <<sessVars, ttdVars, termVars, launchVars, liveVars, stderrVars>>

(***************************************************************************)
(* Time-travel helpers of the adapter.                                     *)
(***************************************************************************)
\* isTTDLiveMode with the replay test made with `some` instead of `every`
isTTDLiveModeSomeReplay ==
    IF runtimeArgsForTTD = JSUndefined THEN JSThrows
    ELSE LET liveFlag == someStartsWith(runtimeArgsForTTD.s, TTDebugFlag)
             replayFlag == someStartsWith(runtimeArgsForTTD.s, ReplayDebugFlag)
         IN IF ~Truthy(runtimeExecutableForTTD) THEN runtimeExecutableForTTD
            ELSE IF ~liveFlag THEN JSBool(FALSE)
            ELSE JSBool(~replayFlag)

\* isTTDLiveMode(): the value of the && chain, or a TypeError when
\* _runtimeArgsForTTD was never assigned
isTTDLiveMode ==
    IF runtimeArgsForTTD = JSUndefined THEN JSThrows
    ELSE LET liveFlag == someStartsWith(runtimeArgsForTTD.s, TTDebugFlag)
             replayFlag == everyStartsWith(runtimeArgsForTTD.s, ReplayDebugFlag)
         IN IF ~Truthy(runtimeExecutableForTTD) THEN runtimeExecutableForTTD
            ELSE IF ~liveFlag THEN JSBool(FALSE)
            ELSE JSBool(~replayFlag)

\* path.dirname of an absolute path held as segments
dirname(segments) ==
    IF segments = <<>> THEN <<>> ELSE SubSeq(segments, 1, Len(segments) - 1)

\* getLogDirectory(): path.dirname throws a TypeError on a non-string
getLogDirectory ==
    IF programPathForTTD.t # "string" THEN JSThrows
    ELSE JSStr(Append(dirname(programPathForTTD.s), "_ttd_log_"))

\* makeReplayConfig, had it kept the runtime arguments of the live session
makeReplayConfigKeepsArgs(tracingDir) ==
    [launch |-> TRUE,
     config |-> [type |-> "node",
                 request |-> "launch",
                 name |-> "Time-Travel Replay",
                 protocol |-> "inspector",
                 stopOnEntry |-> TRUE,
                 runtimeExecutable |-> runtimeExecutableForTTD,
                 runtimeArgs |-> Append(runtimeArgsForTTD.s,
                                        <<"--replay-debug=", tracingDir>>),
                 console |-> "internalConsole",
                 timeout |-> 30000]]

\* makeReplayConfig (lines 76-93)
makeReplayConfig(tracingDir) ==
    [launch |-> TRUE,
     config |-> [type |-> "node",
                 request |-> "launch",
                 name |-> "Time-Travel Replay",
                 protocol |-> "inspector",
                 stopOnEntry |-> TRUE,
                 runtimeExecutable |-> runtimeExecutableForTTD,
                 runtimeArgs |-> << <<"--replay-debug=", tracingDir>> >>,
                 console |-> "internalConsole",
                 timeout |-> 30000]]

\* the event launchStatusNotify sends
launchStatusNotify(state, id, data) ==
    [state |-> state, id |-> id, payload |-> data]

(***************************************************************************)
(* pathUtils.ensureTraceTarget: the file system decides whether the        *)
(* directory can be created and whether it can be emptied.                 *)
(***************************************************************************)
ensureTraceTarget(pth, okDir, okClean) ==
    IF ~okDir
    THEN <<FALSE, JSStr(<<"Failed to create directory for Time-Travel info: ", pth>>)>>
    ELSE IF ~okClean
    THEN <<FALSE, JSStr(<<"Failed to clean directory for Time-Travel info: ", pth>>)>>
    ELSE <<TRUE, JSUndefined>>

\* JSON.stringify of what the catch handler receives: undefined stays
\* undefined, an Error has no enumerable property
JSONstringify(ex) ==
    CASE ex.t = "undefined" -> JSUndefined
      [] ex.t = "Error" -> JSStr("{}")
      [] OTHER -> JSStr(<<"json", ex>>)

\* what a rejected writeTTDLog is rejected with
WriteRejections == {[t |-> "Error", message |-> "not paused"]}

LaunchFalse == JSStr("{\"launch\":false}")
LaunchTrue == JSStr("{\"launch\":true}")

\* a client request that started no capture request
NoLaunch == {}

(***************************************************************************)
(* Init: the adapter after construction (field initializers, lines 44-64). *)
(***************************************************************************)
Init ==
    /\ adapterID = JSUndefined
    /\ launched = FALSE
    /\ chrome = FALSE
    /\ attachMode = FALSE
    /\ launchAttachArgs = JSUndefined
    /\ doAttachPending = FALSE
    /\ continueAfterConfigDone = TRUE
    /\ entryPauseEvent = JSUndefined
    /\ waitingForEntryPauseEvent = TRUE
    /\ finishedConfig = FALSE
    /\ expectingStopReason = JSUndefined
    /\ isTerminated = JSUndefined
    /\ pollTimer = "none"
    /\ count = 0
    /\ evals = <<>>
    /\ loggedTargetVersion = FALSE
    /\ nodeProcessId = JSUndefined
    /\ initializedEvents = 0
    /\ continues = 0
    /\ clientPauses = [n |-> 0, last |-> JSUndefined]
    /\ npaused = 0
    /\ nconfigDone = 0
    /\ bpParity = FALSE
    /\ restartMode = JSUndefined
    /\ port = JSUndefined
    /\ inShutdown = FALSE
    /\ kills = <<>>
    /\ nterminate = 0
    /\ restartArgs = JSUndefined
    /\ terminateReason = JSUndefined
    /\ ignoredContexts = {}
    /\ launchPromise = "none"
    /\ launchError = JSUndefined
    /\ nodeTerminationPolls = 0
    /\ livenessTimers = 0
    /\ processAlive = TRUE
    /\ handlingEarlyNodeMsgs = TRUE
    /\ captureFromStd = FALSE
    /\ stderrLog = <<>>
    /\ runtimeArgsForTTD = JSUndefined
    /\ runtimeExecutableForTTD = JSUndefined
    /\ programPathForTTD = JSUndefined
    /\ pendingTTDLaunch = FALSE
    /\ idGenerator = 0
    /\ launches = <<>>
    /\ events = <<>>
    /\ calls = <<>>
    /\ reqs = <<>>

(***************************************************************************)
(* initialize (lines 169-180) records the adapter id.                      *)
(***************************************************************************)
AdapterIDs == {JSStr("node2"), JSStr("extensionHost")}

initialize ==
    /\ adapterID = JSUndefined
    /\ ~launched /\ ~chrome
    /\ \E id \in AdapterIDs : adapterID' = id
    /\ UNCHANGED <<launched, chrome, attachMode, launchAttachArgs,
                   doAttachPending, continueAfterConfigDone, entryPauseEvent,
                   waitingForEntryPauseEvent, finishedConfig,
                   expectingStopReason, isTerminated, pollTimer, count, evals,
                   loggedTargetVersion, nodeProcessId, initializedEvents,
                   continues, clientPauses, npaused, nconfigDone, bpParity>>
    /\ UNCHANGED <<ttdVars, termVars, launchVars, liveVars, stderrVars>>

isExtensionHost ==
    adapterID = JSStr("extensionHost2") \/ adapterID = JSStr("extensionHost")

normalAttachMode == attachMode /\ ~isExtensionHost

(***************************************************************************)
(* launch (lines 182-322), on its successful path: line 217, then either   *)
(* the extension-host spawn (lines 219-237), which makes no connection,    *)
(* or the time-travel settings (lines 263-265), the spawn and doAttach up  *)
(* to its await.                                                           *)
(***************************************************************************)
launchTTD(args) ==
    /\ runtimeArgsForTTD' = JSStr(args.runtimeArgs)
    /\ runtimeExecutableForTTD' = args.runtimeExecutable
    /\ programPathForTTD' = args.program

JSNum(n) == [t |-> "number", n |-> n]

StopOnEntryValues == {JSUndefined, JSBool(TRUE), JSBool(FALSE)}

\* the pid of the spawned process
SpawnedPid == JSNum(4242)

\* what utils.random(3000, 50000) may give for the debug port (line 188)
RandomPorts == {JSNum(3000), JSNum(49999)}

launch(args) ==
    /\ adapterID # JSUndefined
    /\ ~launched /\ ~chrome
    /\ launched' = TRUE
    /\ launchAttachArgs' = args
    /\ continueAfterConfigDone' = ~Truthy(args.stopOnEntry)
    /\ restartMode' = args.restart
    /\ nodeProcessId' = SpawnedPid
    /\ launchPromise' = "resolved"
    /\ IF isExtensionHost
       THEN UNCHANGED <<chrome, doAttachPending, port, captureFromStd,
                        runtimeArgsForTTD, runtimeExecutableForTTD,
                        programPathForTTD>>
       ELSE /\ captureFromStd' = (args.outputCapture = JSStr("std"))
            /\ launchTTD(args)
            /\ IF Truthy(args.noDebug)
               THEN UNCHANGED <<chrome, doAttachPending, port>>
               ELSE /\ chrome' = TRUE
                    /\ doAttachPending' = TRUE
                    /\ IF Truthy(args.port)
                       THEN port' = args.port
                       ELSE port' \in RandomPorts
    /\ UNCHANGED <<adapterID, attachMode, entryPauseEvent,
                   waitingForEntryPauseEvent, finishedConfig,
                   expectingStopReason, isTerminated, pollTimer, count, evals,
                   loggedTargetVersion, initializedEvents, continues,
                   clientPauses, npaused, nconfigDone, bpParity>>
    /\ UNCHANGED <<inShutdown, kills, nterminate, restartArgs,
                   terminateReason, ignoredContexts, launchError, liveVars,
                   handlingEarlyNodeMsgs, stderrLog>>
    /\ UNCHANGED <<pendingTTDLaunch, idGenerator, launches, events, calls, reqs>>

\* attach (lines 324-335): the base adapter records the arguments and the
\* attach mode and calls doAttach
attach(args) ==
    /\ adapterID # JSUndefined
    /\ ~chrome
    /\ attachMode' = TRUE
    /\ launchAttachArgs' = args
    /\ restartMode' = args.restart
    /\ port' = args.port
    /\ chrome' = TRUE
    /\ doAttachPending' = TRUE
    /\ UNCHANGED <<adapterID, launched, continueAfterConfigDone,
                   entryPauseEvent, waitingForEntryPauseEvent, finishedConfig,
                   expectingStopReason, isTerminated, pollTimer, count, evals,
                   loggedTargetVersion, nodeProcessId, initializedEvents,
                   continues, clientPauses, npaused, nconfigDone, bpParity>>
    /\ UNCHANGED <<inShutdown, kills, nterminate, restartArgs,
                   terminateReason, ignoredContexts, launchVars, liveVars, stderrVars>>
    /\ UNCHANGED ttdVars

\* the launch requests of a time-travel session
TTDLaunchArgs ==
    [runtimeArgs : RuntimeArgLists,
     runtimeExecutable : RuntimeExecutables,
     program : ProgramPaths,
     stopOnEntry : {JSUndefined},
     timeout : {JSUndefined},
     restart : {JSUndefined},
     port : {JSNum(9229)},
     noDebug : {JSUndefined},
     outputCapture : {JSUndefined}]

TTDAttachArgs ==
    [stopOnEntry : {JSUndefined}, timeout : {JSUndefined},
     restart : {JSUndefined}, port : {JSNum(9229)}]

launchTimeTravel == \E args \in TTDLaunchArgs : launch(args)

attachTimeTravel == \E args \in TTDAttachArgs : attach(args)

(***************************************************************************)
(* launchSetupForReverseExecution, its synchronous part (lines 99-119).    *)
(***************************************************************************)
\* a client request: how it was routed, the capture request it started (if
\* any), how the direct TimeTravel call ended (if one was made), and what the
\* promise handed back to the client did
NewReq(op, route, launchID, status, value) ==
    [op |-> op, route |-> route, launchID |-> launchID, direct |-> "none",
     status |-> status, value |-> value]

\* the refusal of lines 100-102, had it also reset the pending flag
launchRefusedClearsFlag(op) ==
    /\ reqs' = Append(reqs, NewReq(op, "capture", NoLaunch, "resolved", LaunchFalse))
    /\ pendingTTDLaunch' = FALSE
    /\ UNCHANGED <<idGenerator, launches, events, calls>>

\* lines 100-102: a capture is pending
launchRefused(op) ==
    /\ reqs' = Append(reqs, NewReq(op, "capture", NoLaunch, "resolved", LaunchFalse))
    /\ UNCHANGED <<pendingTTDLaunch, idGenerator, launches, events, calls>>

\* lines 104-119 without the start event of line 106
launchStartUnannounced(op) ==
    LET launchID == idGenerator
        logDir == getLogDirectory
    IN /\ idGenerator' = idGenerator + 1
       /\ pendingTTDLaunch' = TRUE
       /\ IF logDir = JSThrows
          THEN /\ launches' = Append(launches,
                   [id |-> launchID, phase |-> "threw", logDir |-> logDir,
                    ensure |-> <<>>])
               /\ reqs' = Append(reqs,
                   NewReq(op, "capture", {launchID}, "threw", JSUndefined))
          ELSE /\ launches' = Append(launches,
                   [id |-> launchID, phase |-> "immediate", logDir |-> logDir,
                    ensure |-> <<>>])
               /\ reqs' = Append(reqs,
                   NewReq(op, "capture", {launchID}, "pending", JSUndefined))
       /\ UNCHANGED <<calls, events>>

\* lines 104-119: the request is started; getLogDirectory may throw after the
\* start event was sent and the flag was set
launchStart(op) ==
    LET launchID == idGenerator
        logDir == getLogDirectory
    IN /\ idGenerator' = idGenerator + 1
       /\ events' = Append(events, launchStatusNotify("start", launchID, JSUndefined))
       /\ pendingTTDLaunch' = TRUE
       /\ IF logDir = JSThrows
          THEN /\ launches' = Append(launches,
                   [id |-> launchID, phase |-> "threw", logDir |-> logDir,
                    ensure |-> <<>>])
               /\ reqs' = Append(reqs,
                   NewReq(op, "capture", {launchID}, "threw", JSUndefined))
          ELSE /\ launches' = Append(launches,
                   [id |-> launchID, phase |-> "immediate", logDir |-> logDir,
                    ensure |-> <<>>])
               /\ reqs' = Append(reqs,
                   NewReq(op, "capture", {launchID}, "pending", JSUndefined))
       /\ UNCHANGED calls

\* launchSetupForReverseExecution without the test of lines 100-102
launchSetupForReverseExecutionUnguarded(op) == launchStart(op)

\* launchSetupForReverseExecution (lines 99-119)
launchSetupForReverseExecution(op) ==
    IF pendingTTDLaunch THEN launchRefused(op) ELSE launchStart(op)

\* the direct TimeTravel call of stepBack / reverseContinue (lines 144, 154)
directReverse(op, method) ==
    /\ calls' = Append(calls, [method |-> method, req |-> Len(reqs) + 1])
    /\ reqs' = Append(reqs,
            [NewReq(op, "direct", NoLaunch, "pending", JSUndefined)
                EXCEPT !.direct = "pending"])
    /\ UNCHANGED <<pendingTTDLaunch, idGenerator, launches, events>>

\* a TypeError thrown while the request is dispatched
reverseThrows(op) ==
    /\ reqs' = Append(reqs, NewReq(op, "none", NoLaunch, "threw", JSUndefined))
    /\ UNCHANGED <<pendingTTDLaunch, idGenerator, launches, events, calls>>

stepBack ==
    /\ chrome
    /\ Len(reqs) < MaxRequests
    /\ IF isTTDLiveMode = JSThrows
       THEN reverseThrows("stepBack")
       ELSE IF Truthy(isTTDLiveMode)
       THEN launchSetupForReverseExecution("stepBack")
       ELSE directReverse("stepBack", "TimeTravel.stepBack")
    /\ UNCHANGED <<sessVars, termVars, launchVars, liveVars, stderrVars, runtimeArgsForTTD, runtimeExecutableForTTD, programPathForTTD>>

reverseContinue ==
    /\ chrome
    /\ Len(reqs) < MaxRequests
    /\ IF isTTDLiveMode = JSThrows
       THEN reverseThrows("reverseContinue")
       ELSE IF Truthy(isTTDLiveMode)
       THEN launchSetupForReverseExecution("reverseContinue")
       ELSE directReverse("reverseContinue", "TimeTravel.reverse")
    /\ UNCHANGED <<sessVars, termVars, launchVars, liveVars, stderrVars, runtimeArgsForTTD, runtimeExecutableForTTD, programPathForTTD>>

(***************************************************************************)
(* The asynchronous steps of a capture request.                            *)
(***************************************************************************)
SetReq(launchID, status, value) ==
    [i \in 1..Len(reqs) |->
        IF launchID \in reqs[i].launchID
        THEN [reqs[i] EXCEPT !.status = status, !.value = value]
        ELSE reqs[i]]

\* the setImmediate callback (lines 111-118) and the micro-tasks behind it:
\* on success the first then (lines 120-123), on failure the catch
\* (lines 134-137)
ensureStep(n, okDir, okClean) ==
    LET l == launches[n]
        ensureLocation == ensureTraceTarget(l.logDir.s, okDir, okClean)
    IN /\ l.phase = "immediate"
       /\ IF ensureLocation[1]
          THEN /\ events' = Append(events, launchStatusNotify("write", l.id, JSUndefined))
               /\ calls' = Append(calls, [method |-> "TimeTravel.writeTTDLog", req |-> l.id])
               /\ launches' = [launches EXCEPT ![n].phase = "writing",
                                               ![n].ensure = ensureLocation]
               /\ UNCHANGED <<reqs, pendingTTDLaunch>>
          ELSE /\ events' = Append(events,
                    launchStatusNotify("fail", l.id, JSONstringify(JSUndefined)))
               /\ launches' = [launches EXCEPT ![n].phase = "failed",
                                               ![n].ensure = ensureLocation]
               /\ reqs' = SetReq(l.id, "resolved", LaunchFalse)
               /\ UNCHANGED <<calls, pendingTTDLaunch>>
       /\ UNCHANGED <<sessVars, termVars, launchVars, liveVars, stderrVars, runtimeArgsForTTD, runtimeExecutableForTTD,
                      programPathForTTD, idGenerator>>

ensureTraceTargetDone ==
    \E n \in 1..Len(launches), okDir \in BOOLEAN, okClean \in BOOLEAN :
        ensureStep(n, okDir, okClean)

\* writeTTDLog resolved: the second then (lines 124-133)
writeResolved(n, indexExists) ==
    LET l == launches[n]
    IN /\ l.phase = "writing"
       /\ IF ~indexExists
          THEN /\ events' = Append(events, launchStatusNotify("fail", l.id,
                    JSStr("Could not write TTD trace -- has synchronous module loading completed?")))
               /\ launches' = [launches EXCEPT ![n].phase = "failed"]
               /\ reqs' = SetReq(l.id, "resolved", LaunchFalse)
               /\ UNCHANGED pendingTTDLaunch
          ELSE /\ events' = Append(events, launchStatusNotify("complete", l.id,
                    makeReplayConfig(l.logDir.s)))
               /\ pendingTTDLaunch' = FALSE
               /\ launches' = [launches EXCEPT ![n].phase = "complete"]
               /\ reqs' = SetReq(l.id, "resolved", LaunchTrue)
       /\ UNCHANGED <<sessVars, termVars, launchVars, liveVars, stderrVars, runtimeArgsForTTD, runtimeExecutableForTTD,
                      programPathForTTD, idGenerator, calls>>

writeTTDLogResolved ==
    \E n \in 1..Len(launches), indexExists \in BOOLEAN : writeResolved(n, indexExists)

\* the catch of lines 134-137, had it sent no status event
writeRejectedSilently(n, ex) ==
    LET l == launches[n]
    IN /\ l.phase = "writing"
       /\ launches' = [launches EXCEPT ![n].phase = "failed"]
       /\ reqs' = SetReq(l.id, "resolved", LaunchFalse)
       /\ UNCHANGED <<sessVars, termVars, launchVars, liveVars, stderrVars, runtimeArgsForTTD, runtimeExecutableForTTD,
                      programPathForTTD, idGenerator, calls, pendingTTDLaunch,
                      events>>

\* writeTTDLog rejected: the catch (lines 134-137)
writeRejected(n, ex) ==
    LET l == launches[n]
    IN /\ l.phase = "writing"
       /\ events' = Append(events, launchStatusNotify("fail", l.id, JSONstringify(ex)))
       /\ launches' = [launches EXCEPT ![n].phase = "failed"]
       /\ reqs' = SetReq(l.id, "resolved", LaunchFalse)
       /\ UNCHANGED <<sessVars, termVars, launchVars, liveVars, stderrVars, runtimeArgsForTTD, runtimeExecutableForTTD,
                      programPathForTTD, idGenerator, calls, pendingTTDLaunch>>

writeTTDLogRejected ==
    \E n \in 1..Len(launches), ex \in WriteRejections : writeRejected(n, ex)

\* the direct call settling, had the rejection handler of lines 146 and 156
\* been left out
directSettledPropagates(i, ok) ==
    /\ reqs[i].route = "direct"
    /\ reqs[i].status = "pending"
    /\ reqs' = [reqs EXCEPT ![i].status = IF ok THEN "resolved" ELSE "rejected",
                            ![i].value = JSUndefined,
                            ![i].direct = IF ok THEN "ok" ELSE "failed"]
    /\ UNCHANGED <<sessVars, termVars, launchVars, liveVars, stderrVars, runtimeArgsForTTD, runtimeExecutableForTTD,
                   programPathForTTD, pendingTTDLaunch, idGenerator, launches,
                   events, calls>>

\* the direct TimeTravel call settles: both handlers of lines 145-146 and
\* 155-156 return undefined
directSettled(i, ok) ==
    /\ reqs[i].route = "direct"
    /\ reqs[i].status = "pending"
    /\ reqs' = [reqs EXCEPT ![i].status = "resolved",
                            ![i].value = JSUndefined,
                            ![i].direct = IF ok THEN "ok" ELSE "failed"]
    /\ UNCHANGED <<sessVars, termVars, launchVars, liveVars, stderrVars, runtimeArgsForTTD, runtimeExecutableForTTD,
                   programPathForTTD, pendingTTDLaunch, idGenerator, launches,
                   events, calls>>

directCallSettled ==
    \E i \in 1..Len(reqs), ok \in BOOLEAN : directSettled(i, ok)

(***************************************************************************)
(* The debug session: entry pause, breakpoints, configurationDone.         *)
(***************************************************************************)
\* what is left unchanged by every action of this part
othersUnchanged == UNCHANGED <<ttdVars, termVars, launchVars, liveVars, stderrVars>>

Location(scriptId, lineNumber, columnNumber) ==
    [scriptId |-> scriptId, lineNumber |-> lineNumber, columnNumber |-> columnNumber]

\* a Debugger.paused notification, by the location of its top call frame
PausedEvent(loc) == [t |-> "paused", callFrames |-> <<[location |-> loc]>>]

PausedEvents ==
    { PausedEvent(Location("script1", 0, 10)),
      PausedEvent(Location("script2", 7, 0)) }

\* the results super.addBreakpoints may give for one breakpoint: none, one
\* without an actual location, one with an actual location
BreakpointResponses ==
    { JSUndefined,
      [t |-> "response", actualLocation |-> JSUndefined],
      [t |-> "response", actualLocation |-> Location("script1", 0, 0)],
      [t |-> "response", actualLocation |-> Location("script2", 0, 10)] }

ResponseLists == SeqsUpTo(BreakpointResponses, MaxResponses)

\* the requests of a debug session without time travel
SessionLaunchArgs ==
    [runtimeArgs : {<<>>},
     runtimeExecutable : {JSUndefined},
     program : {JSStr(<<"proj", "app.js">>)},
     stopOnEntry : StopOnEntryValues,
     timeout : {JSNum(120), JSNum(40)},
     restart : {JSUndefined},
     port : {JSNum(9229)},
     noDebug : {JSUndefined},
     outputCapture : {JSUndefined}]

SessionAttachArgs ==
    [stopOnEntry : StopOnEntryValues, timeout : {JSUndefined},
     restart : {JSUndefined}, port : {JSNum(9229)}]

launchSession == \E args \in SessionLaunchArgs : launch(args)

attachSession == \E args \in SessionAttachArgs : attach(args)

\* the override of lines 517-521, had it passed every call on to the base
sendInitializedEventAlways(waiting) ==
    initializedEvents' = initializedEvents + 1

\* super.sendInitializedEvent, reached through the override of lines 517-521
sendInitializedEvent(waiting) ==
    initializedEvents' = IF ~waiting THEN initializedEvents + 1 ELSE initializedEvents

\* getNodeProcessDetailsIfNeeded().then(() => this.sendInitializedEvent())
\* with the value _waitingForEntryPauseEvent has when the micro-task runs:
\* without an evaluation (line 713) the notification follows in the same
\* turn, otherwise after the response
detailsThenInitialized(waiting) ==
    IF loggedTargetVersion \/ ~chrome
    THEN /\ sendInitializedEvent(waiting)
         /\ UNCHANGED evals
    ELSE /\ evals' = Append(evals, [thenInitialized |-> TRUE])
         /\ UNCHANGED initializedEvents

\* checkPausedInterval of beginWaitingForDebuggerPaused
checkPausedInterval == 50
\* the number of ticks waited in attach mode, and in launch mode without timeout
AttachWaitCount == 10
DefaultWaitCount == 100

\* the initial count of beginWaitingForDebuggerPaused (lines 648-652)
initialCount ==
    IF attachMode THEN AttachWaitCount
    ELSE IF launchAttachArgs.timeout.t = "number"
    THEN launchAttachArgs.timeout.n \div checkPausedInterval
    ELSE DefaultWaitCount

\* doAttach (lines 356-362): the end of super.doAttach, where the base
\* adapter makes the call of sendInitializedEvent that the override of
\* lines 514-521 is written for (coreInitializes), then lines 358-361
doAttachCompletes(coreInitializes) ==
    /\ doAttachPending
    /\ doAttachPending' = FALSE
    /\ IF coreInitializes
       THEN sendInitializedEvent(waitingForEntryPauseEvent)
       ELSE UNCHANGED initializedEvents
    /\ pollTimer' = "running"
    /\ count' = initialCount
    /\ IF loggedTargetVersion \/ ~chrome
       THEN UNCHANGED evals
       ELSE evals' = Append(evals, [thenInitialized |-> FALSE])
    /\ UNCHANGED <<adapterID, launched, chrome, attachMode, launchAttachArgs,
                   continueAfterConfigDone, entryPauseEvent,
                   waitingForEntryPauseEvent, finishedConfig,
                   expectingStopReason, isTerminated, loggedTargetVersion,
                   nodeProcessId, continues, clientPauses,
                   npaused, nconfigDone, bpParity>>
    /\ othersUnchanged

\* doAttach after its await (lines 358-361)
doAttachContinues == doAttachCompletes(FALSE)

\* doAttach with the base adapter's initialized call at the end of its await
doAttachAfterCore == doAttachCompletes(TRUE)

\* the entry branch of onPaused, had line 574 been left out
onPausedEntryKeepsWaiting(notification) ==
    /\ expectingStopReason' = JSStr("entry")
    /\ entryPauseEvent' = notification
    /\ continueAfterConfigDone' =
          IF \/ normalAttachMode /\ launchAttachArgs.stopOnEntry # JSBool(FALSE)
             \/ isExtensionHost /\ Truthy(launchAttachArgs.stopOnEntry)
          THEN FALSE
          ELSE continueAfterConfigDone
    /\ detailsThenInitialized(TRUE)
    /\ UNCHANGED <<clientPauses, waitingForEntryPauseEvent>>

\* the entry branch of onPaused, had it assumed stop on entry in every mode
onPausedEntryAlwaysStops(notification) ==
    /\ expectingStopReason' = JSStr("entry")
    /\ entryPauseEvent' = notification
    /\ waitingForEntryPauseEvent' = FALSE
    /\ continueAfterConfigDone' = FALSE
    /\ detailsThenInitialized(FALSE)
    /\ UNCHANGED clientPauses

\* onPaused, the entry branch (lines 570-585)
onPausedEntry(notification) ==
    /\ expectingStopReason' = JSStr("entry")
    /\ entryPauseEvent' = notification
    /\ waitingForEntryPauseEvent' = FALSE
    /\ continueAfterConfigDone' =
          IF \/ normalAttachMode /\ launchAttachArgs.stopOnEntry # JSBool(FALSE)
             \/ isExtensionHost /\ Truthy(launchAttachArgs.stopOnEntry)
          THEN FALSE
          ELSE continueAfterConfigDone
    /\ detailsThenInitialized(FALSE)
    /\ UNCHANGED clientPauses

\* onPaused, the ordinary branch (line 587): the base adapter gets the pause
\* with the stop reason expected at the time of the call
onPausedOrdinary(notification) ==
    /\ clientPauses' =
          [n |-> clientPauses.n + 1,
           last |-> [t |-> "pause", event |-> notification,
                     reason |-> expectingStopReason]]
    /\ UNCHANGED <<expectingStopReason, entryPauseEvent,
                   waitingForEntryPauseEvent, continueAfterConfigDone, evals,
                   initializedEvents>>

\* onPaused (lines 568-589)
onPaused(notification) ==
    IF waitingForEntryPauseEvent
    THEN onPausedEntry(notification)
    ELSE onPausedOrdinary(notification)

\* a Debugger.paused event of the runtime
pausedEvent(notification) ==
    /\ chrome
    /\ npaused < MaxPaused
    /\ npaused' = npaused + 1
    /\ onPaused(notification)
    /\ UNCHANGED <<adapterID, launched, chrome, attachMode, launchAttachArgs,
                   doAttachPending, finishedConfig, isTerminated, pollTimer,
                   count, loggedTargetVersion, nodeProcessId, continues,
                   nconfigDone, bpParity>>
    /\ othersUnchanged

debuggerPaused == \E notification \in PausedEvents : pausedEvent(notification)

\* the tick of the interval timer, had its timeout branch left the
\* clearInterval of line 660 out
pollTickLeavesTimer ==
    /\ pollTimer = "running"
    /\ IF entryPauseEvent # JSUndefined \/ Truthy(isTerminated)
       THEN /\ pollTimer' = "cleared"
            /\ count' = 0
            /\ UNCHANGED <<continueAfterConfigDone,
                           waitingForEntryPauseEvent, evals, initializedEvents>>
       ELSE /\ IF count - 1 <= 0
               THEN /\ count' = 0
                    /\ UNCHANGED pollTimer
                    /\ continueAfterConfigDone' = FALSE
                    /\ waitingForEntryPauseEvent' = FALSE
                    /\ detailsThenInitialized(FALSE)
               ELSE /\ count' = count - 1
                    /\ UNCHANGED <<pollTimer, continueAfterConfigDone,
                                   waitingForEntryPauseEvent, evals,
                                   initializedEvents>>
    /\ UNCHANGED <<adapterID, launched, chrome, attachMode, launchAttachArgs,
                   doAttachPending, entryPauseEvent, finishedConfig,
                   expectingStopReason, isTerminated, loggedTargetVersion,
                   nodeProcessId, continues, clientPauses, npaused, nconfigDone, bpParity>>
    /\ othersUnchanged

\* the tick of the interval timer, had line 655 not looked at
\* _entryPauseEvent
pollTickIgnoresEntryPause ==
    /\ pollTimer = "running"
    /\ IF Truthy(isTerminated)
       THEN /\ pollTimer' = "cleared"
            /\ count' = 0
            /\ UNCHANGED <<continueAfterConfigDone,
                           waitingForEntryPauseEvent, evals, initializedEvents>>
       ELSE /\ IF count - 1 <= 0
               THEN /\ count' = 0
                    /\ pollTimer' = "cleared"
                    /\ continueAfterConfigDone' = FALSE
                    /\ waitingForEntryPauseEvent' = FALSE
                    /\ detailsThenInitialized(FALSE)
               ELSE /\ count' = count - 1
                    /\ UNCHANGED <<pollTimer, continueAfterConfigDone,
                                   waitingForEntryPauseEvent, evals,
                                   initializedEvents>>
    /\ UNCHANGED <<adapterID, launched, chrome, attachMode, launchAttachArgs,
                   doAttachPending, entryPauseEvent, finishedConfig,
                   expectingStopReason, isTerminated, loggedTargetVersion,
                   nodeProcessId, continues, clientPauses, npaused, nconfigDone, bpParity>>
    /\ othersUnchanged

\* the tick of the interval timer, had line 657 tested count-- instead of
\* --count
pollTickPostDecrement ==
    /\ pollTimer = "running"
    /\ IF entryPauseEvent # JSUndefined \/ Truthy(isTerminated)
       THEN /\ pollTimer' = "cleared"
            /\ count' = 0
            /\ UNCHANGED <<continueAfterConfigDone,
                           waitingForEntryPauseEvent, evals, initializedEvents>>
       ELSE /\ IF count <= 0
               THEN /\ count' = 0
                    /\ pollTimer' = "cleared"
                    /\ continueAfterConfigDone' = FALSE
                    /\ waitingForEntryPauseEvent' = FALSE
                    /\ detailsThenInitialized(FALSE)
               ELSE /\ count' = count - 1
                    /\ UNCHANGED <<pollTimer, continueAfterConfigDone,
                                   waitingForEntryPauseEvent, evals,
                                   initializedEvents>>
    /\ UNCHANGED <<adapterID, launched, chrome, attachMode, launchAttachArgs,
                   doAttachPending, entryPauseEvent, finishedConfig,
                   expectingStopReason, isTerminated, loggedTargetVersion,
                   nodeProcessId, continues, clientPauses, npaused, nconfigDone, bpParity>>
    /\ othersUnchanged

\* the tick of the interval timer, had its timeout branch left line 662 out
pollTickKeepsWaiting ==
    /\ pollTimer = "running"
    /\ IF entryPauseEvent # JSUndefined \/ Truthy(isTerminated)
       THEN /\ pollTimer' = "cleared"
            /\ count' = 0
            /\ UNCHANGED <<continueAfterConfigDone,
                           waitingForEntryPauseEvent, evals, initializedEvents>>
       ELSE /\ IF count - 1 <= 0
               THEN /\ count' = 0
                    /\ pollTimer' = "cleared"
                    /\ continueAfterConfigDone' = FALSE
                    /\ UNCHANGED waitingForEntryPauseEvent
                    /\ detailsThenInitialized(TRUE)
               ELSE /\ count' = count - 1
                    /\ UNCHANGED <<pollTimer, continueAfterConfigDone,
                                   waitingForEntryPauseEvent, evals,
                                   initializedEvents>>
    /\ UNCHANGED <<adapterID, launched, chrome, attachMode, launchAttachArgs,
                   doAttachPending, entryPauseEvent, finishedConfig,
                   expectingStopReason, isTerminated, loggedTargetVersion,
                   nodeProcessId, continues, clientPauses, npaused, nconfigDone, bpParity>>
    /\ othersUnchanged

\* one tick of the interval timer of beginWaitingForDebuggerPaused
\* (lines 654-668); count lives in the closure of the timer callback and is
\* gone (held as 0) once the timer is cleared
pollTick ==
    /\ pollTimer = "running"
    /\ IF entryPauseEvent # JSUndefined \/ Truthy(isTerminated)
       THEN /\ pollTimer' = "cleared"
            /\ count' = 0
            /\ UNCHANGED <<continueAfterConfigDone,
                           waitingForEntryPauseEvent, evals, initializedEvents>>
       ELSE /\ IF count - 1 <= 0
               THEN /\ count' = 0
                    /\ pollTimer' = "cleared"
                    /\ continueAfterConfigDone' = FALSE
                    /\ waitingForEntryPauseEvent' = FALSE
                    /\ detailsThenInitialized(FALSE)
               ELSE /\ count' = count - 1
                    /\ UNCHANGED <<pollTimer, continueAfterConfigDone,
                                   waitingForEntryPauseEvent, evals,
                                   initializedEvents>>
    /\ UNCHANGED <<adapterID, launched, chrome, attachMode, launchAttachArgs,
                   doAttachPending, entryPauseEvent, finishedConfig,
                   expectingStopReason, isTerminated, loggedTargetVersion,
                   nodeProcessId, continues, clientPauses, npaused, nconfigDone, bpParity>>
    /\ othersUnchanged

RemoveAt(q, k) == SubSeq(q, 1, k - 1) \o SubSeq(q, k + 1, Len(q))

\* the pid the target reports for process.pid
EvaluatedPid == JSNum(777)

\* _pollForNodeProcess (line 41) is declared and never assigned
pollForNodeProcess == JSUndefined

\* startPollingForNodeTermination (lines 752-767): the interval is set
startPollingForNodeTermination ==
    /\ nodeTerminationPolls' = nodeTerminationPolls + 1
    /\ livenessTimers' = livenessTimers + 1

\* the response handler, had it neither looked at _loggedTargetVersion
\* again (line 717) nor at the pid already recorded (line 731)
evaluateSettledPidUnguarded(k, outcome, pid) ==
    /\ evals' = RemoveAt(evals, k)
    /\ IF outcome = "value"
       THEN /\ nodeProcessId' = pid
            /\ IF Truthy(pollForNodeProcess)
               THEN startPollingForNodeTermination
               ELSE UNCHANGED <<nodeTerminationPolls, livenessTimers>>
            /\ loggedTargetVersion' = TRUE
       ELSE UNCHANGED <<nodeProcessId, loggedTargetVersion,
                        nodeTerminationPolls, livenessTimers>>
    /\ IF evals[k].thenInitialized
       THEN sendInitializedEvent(waitingForEntryPauseEvent)
       ELSE UNCHANGED initializedEvents
    /\ UNCHANGED <<adapterID, launched, chrome, attachMode, launchAttachArgs,
                   doAttachPending, continueAfterConfigDone, entryPauseEvent,
                   waitingForEntryPauseEvent, finishedConfig,
                   expectingStopReason, isTerminated, pollTimer, count,
                   continues, clientPauses, npaused, nconfigDone, bpParity>>
    /\ UNCHANGED <<ttdVars, termVars, launchVars, stderrVars, processAlive>>

\* the response of the Runtime.evaluate of getNodeProcessDetailsIfNeeded
\* (lines 716-749), then the continuation of the caller
evaluateSettledPid(k, outcome, pid) ==
    /\ evals' = RemoveAt(evals, k)
    /\ IF outcome = "value" /\ ~loggedTargetVersion
       THEN /\ nodeProcessId' =
                  IF ~Truthy(nodeProcessId) THEN pid ELSE nodeProcessId
            /\ IF Truthy(pollForNodeProcess)
               THEN startPollingForNodeTermination
               ELSE UNCHANGED <<nodeTerminationPolls, livenessTimers>>
            /\ loggedTargetVersion' = TRUE
       ELSE UNCHANGED <<nodeProcessId, loggedTargetVersion,
                        nodeTerminationPolls, livenessTimers>>
    /\ IF evals[k].thenInitialized
       THEN sendInitializedEvent(waitingForEntryPauseEvent)
       ELSE UNCHANGED initializedEvents
    /\ UNCHANGED <<adapterID, launched, chrome, attachMode, launchAttachArgs,
                   doAttachPending, continueAfterConfigDone, entryPauseEvent,
                   waitingForEntryPauseEvent, finishedConfig,
                   expectingStopReason, isTerminated, pollTimer, count,
                   continues, clientPauses, npaused, nconfigDone, bpParity>>
    /\ UNCHANGED <<ttdVars, termVars, launchVars, stderrVars, processAlive>>

evaluateSettled(k, outcome) == evaluateSettledPid(k, outcome, EvaluatedPid)

evaluateResponse ==
    \E k \in 1..Len(evals), outcome \in {"value", "exception", "error"} :
        evaluateSettled(k, outcome)

\* the test of lines 682-686, had it compared the column as well
bpAtEntryLocationWithColumn(responses, entryLocation) ==
    \E i \in 1..Len(responses) :
        /\ responses[i] # JSUndefined
        /\ responses[i].actualLocation # JSUndefined
        /\ responses[i].actualLocation = entryLocation

\* the test of lines 682-686
bpAtEntryLocation(responses, entryLocation) ==
    \E i \in 1..Len(responses) :
        /\ responses[i] # JSUndefined
        /\ responses[i].actualLocation # JSUndefined
        /\ responses[i].actualLocation.lineNumber = entryLocation.lineNumber
        /\ responses[i].actualLocation.scriptId = entryLocation.scriptId

\* addBreakpoints, had line 680 not looked at _finishedConfig
addBreakpointsAfterConfig(responses) ==
    /\ chrome
    /\ IF /\ entryPauseEvent # JSUndefined
          /\ bpAtEntryLocation(responses, entryPauseEvent.callFrames[1].location)
       THEN /\ continueAfterConfigDone' = FALSE
            /\ expectingStopReason' = JSStr("breakpoint")
       ELSE UNCHANGED <<continueAfterConfigDone, expectingStopReason>>
    /\ UNCHANGED <<adapterID, launched, chrome, attachMode, launchAttachArgs,
                   doAttachPending, entryPauseEvent, waitingForEntryPauseEvent,
                   finishedConfig, isTerminated, pollTimer, count, evals,
                   loggedTargetVersion, nodeProcessId, initializedEvents,
                   continues, clientPauses, npaused, nconfigDone>>
    /\ bpParity' = ~bpParity
    /\ othersUnchanged

\* addBreakpoints (lines 678-699): super.addBreakpoints has answered and the
\* then-handler runs
addBreakpoints(responses) ==
    /\ chrome
    /\ IF /\ entryPauseEvent # JSUndefined
          /\ ~finishedConfig
          /\ bpAtEntryLocation(responses, entryPauseEvent.callFrames[1].location)
       THEN /\ continueAfterConfigDone' = FALSE
            /\ expectingStopReason' = JSStr("breakpoint")
       ELSE UNCHANGED <<continueAfterConfigDone, expectingStopReason>>
    /\ UNCHANGED <<adapterID, launched, chrome, attachMode, launchAttachArgs,
                   doAttachPending, entryPauseEvent, waitingForEntryPauseEvent,
                   finishedConfig, isTerminated, pollTimer, count, evals,
                   loggedTargetVersion, nodeProcessId, initializedEvents,
                   continues, clientPauses, npaused, nconfigDone>>
    /\ bpParity' = ~bpParity
    /\ othersUnchanged

addBreakpointsDone == \E responses \in ResponseLists : addBreakpoints(responses)

\* configurationDone, had it resumed the target without looking at
\* _continueAfterConfigDone
configurationDoneResumes ==
    /\ nconfigDone < MaxConfigDone
    /\ nconfigDone' = nconfigDone + 1
    /\ IF ~chrome
       THEN UNCHANGED <<finishedConfig, expectingStopReason, continues>>
       ELSE /\ finishedConfig' = TRUE
            /\ expectingStopReason' = JSUndefined
            /\ continues' = continues + 1
    /\ UNCHANGED <<clientPauses, entryPauseEvent, waitingForEntryPauseEvent,
                   continueAfterConfigDone, evals, initializedEvents>>
    /\ UNCHANGED <<adapterID, launched, chrome, attachMode, launchAttachArgs,
                   doAttachPending, isTerminated, pollTimer, count,
                   loggedTargetVersion, nodeProcessId, npaused, bpParity>>
    /\ othersUnchanged

\* configurationDone, had it marked the configuration as finished only on
\* the resuming path
configurationDoneMarksOnResume ==
    /\ nconfigDone < MaxConfigDone
    /\ nconfigDone' = nconfigDone + 1
    /\ IF ~chrome
       THEN UNCHANGED <<finishedConfig, expectingStopReason, continues,
                        clientPauses, entryPauseEvent,
                        waitingForEntryPauseEvent, continueAfterConfigDone,
                        evals, initializedEvents>>
       ELSE IF continueAfterConfigDone
       THEN /\ finishedConfig' = TRUE
            /\ expectingStopReason' = JSUndefined
            /\ continues' = continues + 1
            /\ UNCHANGED <<clientPauses, entryPauseEvent,
                           waitingForEntryPauseEvent,
                           continueAfterConfigDone, evals,
                           initializedEvents>>
       ELSE IF entryPauseEvent # JSUndefined
       THEN /\ onPaused(entryPauseEvent)
            /\ UNCHANGED <<finishedConfig, continues>>
       ELSE UNCHANGED <<finishedConfig, expectingStopReason, continues,
                        clientPauses, entryPauseEvent,
                        waitingForEntryPauseEvent, continueAfterConfigDone,
                        evals, initializedEvents>>
    /\ UNCHANGED <<adapterID, launched, chrome, attachMode, launchAttachArgs,
                   doAttachPending, isTerminated, pollTimer, count,
                   loggedTargetVersion, nodeProcessId, npaused, bpParity>>
    /\ othersUnchanged

\* configurationDone (lines 523-540)
configurationDone ==
    /\ nconfigDone < MaxConfigDone
    /\ nconfigDone' = nconfigDone + 1
    /\ IF ~chrome
       THEN UNCHANGED <<finishedConfig, expectingStopReason, continues,
                        clientPauses, entryPauseEvent,
                        waitingForEntryPauseEvent, continueAfterConfigDone,
                        evals, initializedEvents>>
       ELSE /\ finishedConfig' = TRUE
            /\ IF continueAfterConfigDone
               THEN /\ expectingStopReason' = JSUndefined
                    /\ continues' = continues + 1
                    /\ UNCHANGED <<clientPauses, entryPauseEvent,
                                   waitingForEntryPauseEvent,
                                   continueAfterConfigDone, evals,
                                   initializedEvents>>
               ELSE IF entryPauseEvent # JSUndefined
               THEN /\ onPaused(entryPauseEvent)
                    /\ UNCHANGED continues
               ELSE UNCHANGED <<expectingStopReason, continues, clientPauses,
                                entryPauseEvent, waitingForEntryPauseEvent,
                                continueAfterConfigDone, evals,
                                initializedEvents>>
    /\ UNCHANGED <<adapterID, launched, chrome, attachMode, launchAttachArgs,
                   doAttachPending, isTerminated, pollTimer, count,
                   loggedTargetVersion, nodeProcessId, npaused, bpParity>>
    /\ othersUnchanged

(***************************************************************************)
(* Termination (lines 542-566).                                            *)
(***************************************************************************)
\* the arguments terminateSession is called with: none (process events,
\* Runtime.executionContextDestroyed), or those of a disconnect request
DisconnectArguments ==
    { [t |-> "args", restart |-> r] : r \in {JSUndefined, JSBool(TRUE), JSBool(FALSE)} }

\* _nodeProcessId after lines 556-561, had line 558 not looked at args
pidAfterRestartCheckAnyCall(args) ==
    IF /\ isExtensionHost
       /\ args # JSUndefined
       /\ args.restart.t = "boolean"
       /\ args.restart.b
    THEN JSNum(0)
    ELSE IF Truthy(restartMode)
    THEN JSNum(0)
    ELSE nodeProcessId

\* _nodeProcessId after lines 556-561
pidAfterRestartCheck(args) ==
    IF /\ isExtensionHost
       /\ args # JSUndefined
       /\ args.restart.t = "boolean"
       /\ args.restart.b
    THEN JSNum(0)
    ELSE IF Truthy(restartMode) /\ args = JSUndefined
    THEN JSNum(0)
    ELSE nodeProcessId

\* killNodeProcess, had it not looked for pid 1
killNodeProcessAnyPid(pid) ==
    IF Truthy(pid) /\ ~normalAttachMode
    THEN /\ kills' = Append(kills, [pid |-> pid, killed |-> TRUE])
         /\ nodeProcessId' = JSNum(0)
    ELSE /\ nodeProcessId' = pid
         /\ UNCHANGED kills

\* killNodeProcess (lines 542-553), with _nodeProcessId = pid
killNodeProcess(pid) ==
    IF Truthy(pid) /\ ~normalAttachMode
    THEN /\ kills' = Append(kills, [pid |-> pid, killed |-> pid # JSNum(1)])
         /\ nodeProcessId' = JSNum(0)
    ELSE /\ nodeProcessId' = pid
         /\ UNCHANGED kills

\* the restart descriptor of line 564, had it not looked at _inShutdown
restartDescriptorAlways(shutdown) ==
    IF Truthy(restartMode)
    THEN [t |-> "restart", port |-> port]
    ELSE JSUndefined

\* the restart descriptor of line 564, with _inShutdown = shutdown
restartDescriptor(shutdown) ==
    IF Truthy(restartMode) /\ ~shutdown
    THEN [t |-> "restart", port |-> port]
    ELSE JSUndefined

\* terminateSession(reason, args) (lines 555-566), called while
\* _inShutdown = shutdown; super.terminateSession gets the reason and the
\* restart descriptor and may shut the base adapter down
terminateSessionReason(reason, args, shutdown) ==
    /\ nterminate < MaxTerminate
    /\ nterminate' = nterminate + 1
    /\ terminateReason' = reason
    /\ killNodeProcess(pidAfterRestartCheck(args))
    /\ restartArgs' = restartDescriptor(shutdown)
    /\ inShutdown' \in {shutdown, TRUE}
    /\ UNCHANGED <<adapterID, launched, chrome, attachMode, launchAttachArgs,
                   doAttachPending, continueAfterConfigDone, entryPauseEvent,
                   waitingForEntryPauseEvent, finishedConfig,
                   expectingStopReason, isTerminated, pollTimer, count, evals,
                   loggedTargetVersion, initializedEvents, continues,
                   clientPauses, npaused, nconfigDone, bpParity>>
    /\ UNCHANGED <<restartMode, port, stderrVars, ttdVars>>

\* the reasons terminateSession is called with: by the listeners of lines
\* 401-415 and 349-353, and by the base adapter on a disconnect request
ProcessErrors == {"ENOENT"}
ErrorReason(error) == JSStr(<<"Node process error: ", error>>)
ExitReason == JSStr(<<"Target exited">>)
CloseReason == JSStr(<<"Target closed">>)
ProgramEndedReason == JSStr(<<"Program ended">>)
DisconnectReason == JSStr(<<"Got disconnect request">>)

TerminateReasons ==
    {ErrorReason(error) : error \in ProcessErrors}
        \cup {ExitReason, CloseReason, ProgramEndedReason, DisconnectReason}

\* a terminateSession call, whatever its reason
terminateSession(args, shutdown) ==
    \E reason \in TerminateReasons :
        terminateSessionReason(reason, args, shutdown)

\* a settled promise ignores resolve and reject
settle(promise, outcome) == IF promise = "none" THEN outcome ELSE promise

\* the 'error' listener of the spawned process (lines 401-406): reject,
\* then terminateSession
processError(error) ==
    /\ launched
    /\ launchPromise' = settle(launchPromise, "rejected")
    /\ terminateSessionReason(ErrorReason(error), JSUndefined, inShutdown)
    /\ UNCHANGED <<ignoredContexts, launchError, liveVars>>

\* the 'exit' listener (lines 407-411)
processExit ==
    /\ launched
    /\ terminateSessionReason(ExitReason, JSUndefined, inShutdown)
    /\ UNCHANGED <<ignoredContexts, launchVars, liveVars>>

\* the 'close' listener (lines 412-416)
processClose ==
    /\ launched
    /\ terminateSessionReason(CloseReason, JSUndefined, inShutdown)
    /\ UNCHANGED <<ignoredContexts, launchVars, liveVars>>

\* the error, exit and close events of the spawned process (lines 401-415)
processEnded ==
    \/ \E error \in ProcessErrors : processError(error)
    \/ processExit
    \/ processClose

\* the ids of the execution contexts of the target; 1 is the main context
ContextIds == {1, 2}

\* the listener treats every context as the main one
onExecutionContextDestroyedAnyContext(id) ==
    /\ chrome /\ ~doAttachPending
    /\ terminateSessionReason(ProgramEndedReason, JSUndefined, inShutdown)
    /\ UNCHANGED <<ignoredContexts, launchVars, liveVars>>

\* the Runtime.executionContextDestroyed listener of hookConnectionEvents
\* (lines 349-353), called with params.executionContextId = id
onExecutionContextDestroyed(id) ==
    /\ chrome /\ ~doAttachPending
    /\ IF id = 1
       THEN /\ terminateSessionReason(ProgramEndedReason, JSUndefined, inShutdown)
            /\ UNCHANGED ignoredContexts
       ELSE /\ id \notin ignoredContexts
            /\ ignoredContexts' = ignoredContexts \cup {id}
            /\ UNCHANGED <<sessVars, ttdVars, stderrVars, restartMode, port,
                           inShutdown, kills, nterminate, restartArgs,
                           terminateReason>>
    /\ UNCHANGED <<launchVars, liveVars>>

\* Runtime.executionContextDestroyed for context 1 (lines 349-353)
executionContextDestroyed == onExecutionContextDestroyed(1)

\* Runtime.executionContextDestroyed for any context
anyExecutionContextDestroyed ==
    \E id \in ContextIds : onExecutionContextDestroyed(id)

\* the disconnect request of the client: the base adapter, which may have
\* begun its shutdown by then, hands the arguments to terminateSession
disconnect ==
    /\ launched \/ chrome
    /\ \E args \in DisconnectArguments, shutdown \in {inShutdown, TRUE} :
          /\ terminateSessionReason(DisconnectReason, args, shutdown)
          /\ UNCHANGED <<ignoredContexts, launchVars, liveVars>>

\* the pids the target may report for process.pid
EvaluatedPids == {EvaluatedPid, JSNum(1)}

evaluateResponseAnyPid ==
    \E k \in 1..Len(evals), outcome \in {"value", "exception", "error"},
       pid \in EvaluatedPids :
        evaluateSettledPid(k, outcome, pid)

\* the requests of a session that is terminated and restarted
TerminationLaunchArgs ==
    [runtimeArgs : {<<>>},
     runtimeExecutable : {JSUndefined},
     program : {JSStr(<<"proj", "app.js">>)},
     stopOnEntry : {JSBool(FALSE)},
     timeout : {JSNum(120)},
     restart : {JSUndefined, JSBool(TRUE)},
     port : {JSUndefined, JSNum(9229)},
     noDebug : {JSUndefined},
     outputCapture : {JSUndefined}]

TerminationAttachArgs ==
    [stopOnEntry : {JSUndefined}, timeout : {JSUndefined},
     restart : {JSUndefined, JSBool(TRUE)}, port : {JSNum(9229)}]

launchRestartable == \E args \in TerminationLaunchArgs : launch(args)

attachRestartable == \E args \in TerminationAttachArgs : attach(args)

TerminationNext ==
    \/ initialize
    \/ launchRestartable
    \/ attachRestartable
    \/ doAttachContinues
    \/ pollTick
    \/ debuggerPaused
    \/ evaluateResponseAnyPid
    \/ processExit
    \/ executionContextDestroyed
    \/ disconnect

SpecTermination == Init /\ [][TerminationNext]_vars

(***************************************************************************)
(* The wait for the entry pause of an attach session, with the timer and   *)
(* the protocol answering: an interval that is set keeps firing, and a     *)
(* Runtime.evaluate that was sent gets its response or its error.          *)
(***************************************************************************)
AttachWaitNext ==
    \/ initialize
    \/ attachSession
    \/ doAttachContinues
    \/ pollTick
    \/ debuggerPaused
    \/ evaluateResponse

SpecAttachWait ==
    /\ Init
    /\ [][AttachWaitNext]_vars
    /\ WF_vars(pollTick)
    /\ WF_vars(evaluateResponse)

(***************************************************************************)
(* The probe of the debuggee by startPollingForNodeTermination, in an      *)
(* attach session: the entry-wait timer and the liveness interval both     *)
(* keep firing while they are set, and a Runtime.evaluate that was sent    *)
(* gets its response or its error.                                         *)
(***************************************************************************)
DiedReason == JSStr(<<"Target process died">>)

\* the debuggee ends: from then on process.kill(pid, 0) of line 757 throws
processDies ==
    /\ chrome
    /\ processAlive
    /\ processAlive' = FALSE
    /\ UNCHANGED <<sessVars, ttdVars, termVars, launchVars, stderrVars,
                   nodeTerminationPolls, livenessTimers>>

\* one tick of the interval of startPollingForNodeTermination
\* (lines 753-766)
nodeTerminationTick ==
    /\ livenessTimers > 0
    /\ IF Truthy(nodeProcessId)
       THEN IF processAlive
            THEN UNCHANGED vars
            ELSE /\ livenessTimers' = livenessTimers - 1
                 /\ terminateSessionReason(DiedReason, JSUndefined, inShutdown)
                 /\ UNCHANGED <<ignoredContexts, launchVars,
                                nodeTerminationPolls, processAlive>>
       ELSE /\ livenessTimers' = livenessTimers - 1
            /\ UNCHANGED <<sessVars, ttdVars, termVars, launchVars,
                           stderrVars, nodeTerminationPolls, processAlive>>

\* the interval timers of the adapter: the entry wait (line 654) and the
\* liveness probe (line 753)
Timers == {"entryWait", "nodeTermination"}

timerTick(timer) ==
    IF timer = "entryWait" THEN pollTick ELSE nodeTerminationTick

timerFires == \E timer \in Timers : timerTick(timer)

\* the response of a Runtime.evaluate: only a debuggee that is alive
\* evaluates process.pid, a dead one leaves the request to fail
evaluateAnswered ==
    \E k \in 1..Len(evals), outcome \in {"value", "exception", "error"} :
        /\ outcome # "error" => processAlive
        /\ evaluateSettled(k, outcome)

LivenessNext ==
    \/ initialize
    \/ attachSession
    \/ doAttachContinues
    \/ timerFires
    \/ debuggerPaused
    \/ evaluateAnswered
    \/ processDies

SpecLiveness ==
    /\ Init
    /\ [][LivenessNext]_vars
    /\ WF_vars(timerFires)
    /\ WF_vars(evaluateAnswered)

(***************************************************************************)
(* One launch session from its configuration to its termination: the       *)
(* events of the entry pause, the breakpoints, configurationDone and       *)
(* terminateSession in every order.                                        *)
(***************************************************************************)
ConfiguredLaunchArgs ==
    [runtimeArgs : {<<>>},
     runtimeExecutable : {JSUndefined},
     program : {JSStr(<<"proj", "app.js">>)},
     stopOnEntry : {JSUndefined},
     timeout : {JSNum(70)},
     restart : {JSUndefined},
     port : {JSNum(9229)},
     noDebug : {JSUndefined},
     outputCapture : {JSUndefined}]

launchConfigured == \E args \in ConfiguredLaunchArgs : launch(args)

LifecycleNext ==
    \/ initialize
    \/ launchConfigured
    \/ doAttachContinues
    \/ pollTick
    \/ debuggerPaused
    \/ evaluateResponse
    \/ addBreakpointsDone
    \/ configurationDone
    \/ processExit
    \/ executionContextDestroyed
    \/ disconnect

SpecLifecycle == Init /\ [][LifecycleNext]_vars

(***************************************************************************)
(* stderr of the spawned process (captureStderr, lines 434-471).  A chunk  *)
(* is a sequence of pieces: ordinary text, the "To start debugging, open   *)
(* the following URL in Chrome:" banner, the --debug-brk deprecation       *)
(* message (DEBUG_BRK_DEP_MSG, line 33) and the "For help see ..." line.   *)
(***************************************************************************)
StderrChunks ==
    { <<"text">>,
      <<"text", "text">>,
      <<"chrome">>,
      <<"text", "chrome", "text">>,
      <<"dep">>,
      <<"help", "dep", "text">>,
      <<"text", "help">>,
      <<"dep", "chrome", "dep">> }

\* msg.indexOf(piece), counted from 1; 0 when the piece is absent
indexOf(msg, piece) ==
    IF \E i \in 1..Len(msg) : msg[i] = piece
    THEN CHOOSE i \in 1..Len(msg) :
            /\ msg[i] = piece
            /\ \A j \in 1..(i - 1) : msg[j] # piece
    ELSE 0

\* msg.substr(0, index) for the index of a piece that is present
substrBefore(msg, piece) == SubSeq(msg, 1, indexOf(msg, piece) - 1)

\* msg.replace(pattern, '') with a pattern without the g flag: the first
\* match goes
replaceFirst(msg, piece) ==
    IF indexOf(msg, piece) = 0
    THEN msg
    ELSE SubSeq(msg, 1, indexOf(msg, piece) - 1)
            \o SubSeq(msg, indexOf(msg, piece) + 1, Len(msg))

\* the 'data' listener of stderr, had line 446 not looked at noDebugMode
stderrDataFiltersNoDebug(data) ==
    /\ launched
    /\ Len(stderrLog) < MaxChunks
    /\ LET noDebugMode == Truthy(launchAttachArgs.noDebug)
           filtering == handlingEarlyNodeMsgs
           hasChromeMsg == filtering /\ indexOf(data, "chrome") > 0
           msg1 == IF hasChromeMsg THEN substrBefore(data, "chrome") ELSE data
           msgMatch == filtering /\ indexOf(msg1, "dep") > 0
           msg2 == IF msgMatch THEN replaceFirst(msg1, "dep") ELSE msg1
           msg3 == IF filtering THEN replaceFirst(msg2, "help") ELSE msg2
           isLastEarlyNodeMsg == hasChromeMsg \/ msgMatch
       IN /\ stderrLog' =
                Append(stderrLog,
                       [chunk |-> data,
                        sent |-> IF \/ handlingEarlyNodeMsgs
                                    \/ noDebugMode
                                    \/ captureFromStd
                                 THEN JSStr(msg3)
                                 ELSE JSUndefined])
          /\ handlingEarlyNodeMsgs' =
                IF isLastEarlyNodeMsg THEN FALSE ELSE handlingEarlyNodeMsgs
    /\ UNCHANGED <<sessVars, ttdVars, termVars, launchVars, liveVars, captureFromStd>>

\* the 'data' listener of stderr (lines 435-470)
stderrData(data) ==
    /\ launched
    /\ Len(stderrLog) < MaxChunks
    /\ LET noDebugMode == Truthy(launchAttachArgs.noDebug)
           filtering == handlingEarlyNodeMsgs /\ ~noDebugMode
           hasChromeMsg == filtering /\ indexOf(data, "chrome") > 0
           msg1 == IF hasChromeMsg THEN substrBefore(data, "chrome") ELSE data
           msgMatch == filtering /\ indexOf(msg1, "dep") > 0
           msg2 == IF msgMatch THEN replaceFirst(msg1, "dep") ELSE msg1
           msg3 == IF filtering THEN replaceFirst(msg2, "help") ELSE msg2
           isLastEarlyNodeMsg == hasChromeMsg \/ msgMatch
       IN /\ stderrLog' =
                Append(stderrLog,
                       [chunk |-> data,
                        sent |-> IF \/ handlingEarlyNodeMsgs
                                    \/ noDebugMode
                                    \/ captureFromStd
                                 THEN JSStr(msg3)
                                 ELSE JSUndefined])
          /\ handlingEarlyNodeMsgs' =
                IF isLastEarlyNodeMsg THEN FALSE ELSE handlingEarlyNodeMsgs
    /\ UNCHANGED <<sessVars, ttdVars, termVars, launchVars, liveVars, captureFromStd>>

stderrChunk == \E data \in StderrChunks : stderrData(data)

\* onConsoleAPICalled (lines 473-485): any console message of the target
\* ends the handling of the early messages
onConsoleAPICalled ==
    /\ chrome
    /\ handlingEarlyNodeMsgs' = FALSE
    /\ UNCHANGED <<sessVars, ttdVars, termVars, launchVars, liveVars, captureFromStd, stderrLog>>

\* the launch requests that decide what is done with the output
OutputLaunchArgs ==
    [runtimeArgs : {<<>>},
     runtimeExecutable : {JSUndefined},
     program : {JSStr(<<"proj", "app.js">>)},
     stopOnEntry : {JSUndefined},
     timeout : {JSUndefined},
     restart : {JSUndefined},
     port : {JSNum(9229)},
     noDebug : {JSUndefined, JSBool(TRUE)},
     outputCapture : {JSUndefined, JSStr("console"), JSStr("std")}]

launchWithOutput == \E args \in OutputLaunchArgs : launch(args)

OutputNext ==
    \/ initialize
    \/ launchWithOutput
    \/ stderrChunk
    \/ onConsoleAPICalled

SpecOutput == Init /\ [][OutputNext]_vars

(***************************************************************************)
(* launch with its checks (lines 182-322).  A path of the request is a     *)
(* list of pieces, "/" first when it is absolute; the file system decides  *)
(* what is found.  resolveProgramPath is taken to resolve.                 *)
(***************************************************************************)
\* path.isAbsolute
isAbsolute(pth) == Len(pth) > 0 /\ pth[1] = "/"

\* ToBoolean of a string held as a list of pieces
NonEmpty(v) == v.t = "string" /\ v.s # <<>>

\* the errors launch rejects with: those of lines 794-818 and those made by
\* the errors module
NotExistError(attribute) ==
    [t |-> "error", name |-> "notExist", attribute |-> attribute]
RelativePathError(attribute) ==
    [t |-> "error", name |-> "relativePath", attribute |-> attribute]
RuntimeNotOnPathError ==
    [t |-> "error", name |-> "runtimeNotOnPath", attribute |-> "runtimeExecutable"]
RuntimeNotFoundError ==
    [t |-> "error", name |-> "runtimeNotFound", attribute |-> "node"]
UnknownConsoleTypeError ==
    [t |-> "error", name |-> "unknownConsoleType", attribute |-> "console"]
CannotLoadEnvVarsError ==
    [t |-> "error", name |-> "cannotLoadEnvVarsFromFile", attribute |-> "envFile"]

\* what the file system holds: whether findOnPath / findExecutable find the
\* runtime, whether the program (as given, or with '.js') and the working
\* directory exist, and whether the env file can be read
FileSystems ==
    [runtimeFound : BOOLEAN, programExists : BOOLEAN, cwdExists : BOOLEAN,
     envFileLoads : BOOLEAN]

\* collectEnvFileArgs (lines 487-512): whether it throws
collectEnvFileArgsThrows(args, fs) == NonEmpty(args.envFile) /\ ~fs.envFileLoads

\* lines 190-215: the error of the runtime executable, if any
runtimeError(args, fs) ==
    IF NonEmpty(args.runtimeExecutable)
    THEN IF ~isAbsolute(args.runtimeExecutable.s)
         THEN IF ~fs.runtimeFound THEN RuntimeNotOnPathError ELSE JSUndefined
         ELSE IF ~fs.runtimeFound THEN NotExistError("runtimeExecutable")
              ELSE JSUndefined
    ELSE IF ~fs.runtimeFound THEN RuntimeNotFoundError ELSE JSUndefined

\* lines 239-258: the error of the program path, if any
programError(args, fs) ==
    IF NonEmpty(args.program)
    THEN IF ~isAbsolute(args.program.s) THEN RelativePathError("program")
         ELSE IF ~fs.programExists THEN NotExistError("program")
         ELSE JSUndefined
    ELSE JSUndefined

\* lines 271-313 without the env file being read
lateErrorEnvFileUnread(args, fs) ==
    IF NonEmpty(args.cwd) /\ ~isAbsolute(args.cwd.s) THEN RelativePathError("cwd")
    ELSE IF NonEmpty(args.cwd) /\ ~fs.cwdExists THEN NotExistError("cwd")
    ELSE IF ~(~Truthy(args.console) \/ args.console = JSStr("internalConsole"))
    THEN UnknownConsoleTypeError
    ELSE JSUndefined

\* lines 271-313: the error of the working directory, the env file or the
\* console, if any
lateError(args, fs) ==
    IF NonEmpty(args.cwd) /\ ~isAbsolute(args.cwd.s) THEN RelativePathError("cwd")
    ELSE IF NonEmpty(args.cwd) /\ ~fs.cwdExists THEN NotExistError("cwd")
    ELSE IF collectEnvFileArgsThrows(args, fs) THEN CannotLoadEnvVarsError
    ELSE IF ~(~Truthy(args.console) \/ args.console = JSStr("internalConsole"))
    THEN UnknownConsoleTypeError
    ELSE JSUndefined

\* args.program after lines 239-257: the pieces below the root
normalizedProgram(args) ==
    IF NonEmpty(args.program) THEN JSStr(Tail(args.program.s)) ELSE args.program

\* launch, from the request to the spawn and doAttach or to the rejection;
\* the client sends one launch request in a session
launchChecked(args, fs) ==
    LET early == runtimeError(args, fs)
        mid == IF isExtensionHost
               THEN IF collectEnvFileArgsThrows(args, fs)
                    THEN CannotLoadEnvVarsError ELSE JSUndefined
               ELSE programError(args, fs)
        late == IF isExtensionHost THEN JSUndefined ELSE lateError(args, fs)
    IN IF early = JSUndefined /\ mid = JSUndefined /\ late = JSUndefined
       THEN /\ launchError = JSUndefined
            /\ launch([args EXCEPT !.program = normalizedProgram(args)])
       ELSE /\ adapterID # JSUndefined
            /\ ~launched /\ ~chrome
            /\ launchError = JSUndefined
            /\ launchAttachArgs' = args
            /\ restartMode' = args.restart
            /\ launchError' = IF early # JSUndefined THEN early
                              ELSE IF mid # JSUndefined THEN mid ELSE late
            /\ IF early # JSUndefined
               THEN UNCHANGED continueAfterConfigDone
               ELSE continueAfterConfigDone' = ~Truthy(args.stopOnEntry)
            /\ IF early = JSUndefined /\ mid = JSUndefined
               THEN /\ captureFromStd' = (args.outputCapture = JSStr("std"))
                    /\ launchTTD([args EXCEPT !.program = normalizedProgram(args)])
               ELSE UNCHANGED <<captureFromStd, runtimeArgsForTTD,
                                runtimeExecutableForTTD, programPathForTTD>>
            /\ UNCHANGED <<adapterID, launched, chrome, attachMode,
                           doAttachPending, entryPauseEvent,
                           waitingForEntryPauseEvent, finishedConfig,
                           expectingStopReason, isTerminated, pollTimer, count,
                           evals, loggedTargetVersion, nodeProcessId,
                           initializedEvents, continues, clientPauses, npaused,
                           nconfigDone, bpParity>>
            /\ UNCHANGED <<port, inShutdown, kills, nterminate, restartArgs,
                           terminateReason, ignoredContexts, launchPromise,
                           liveVars,
                           handlingEarlyNodeMsgs, stderrLog>>
            /\ UNCHANGED <<pendingTTDLaunch, idGenerator, launches, events,
                           calls, reqs>>

\* the launch requests of a session that may be misconfigured
CheckedPrograms ==
    {JSUndefined, JSStr(<<"app.js">>), JSStr(<<"/", "proj", "app.js">>)}

CheckedLaunchArgs ==
    [runtimeArgs : {<<>>},
     runtimeExecutable : {JSUndefined, JSStr(<<"node-chakracore">>),
                          JSStr(<<"/", "opt", "node">>)},
     program : CheckedPrograms,
     cwd : {JSUndefined, JSStr(<<"proj">>), JSStr(<<"/", "proj">>)},
     console : {JSUndefined, JSStr("internalConsole"), JSStr("integratedTerminal")},
     envFile : {JSUndefined, JSStr(<<"/", "proj", ".env">>)},
     stopOnEntry : {JSBool(TRUE)},
     timeout : {JSUndefined},
     restart : {JSUndefined},
     port : {JSNum(9229)},
     noDebug : {JSUndefined, JSBool(TRUE)},
     outputCapture : {JSUndefined}]

launchRequest ==
    /\ ~launched /\ launchError = JSUndefined
    /\ \E args \in CheckedLaunchArgs, fs \in FileSystems : launchChecked(args, fs)

LaunchNext ==
    \/ initialize
    \/ launchRequest
    \/ doAttachContinues
    \/ processEnded
    \/ anyExecutionContextDestroyed
    \/ disconnect

SpecLaunch == Init /\ [][LaunchNext]_vars

(***************************************************************************)
(* The wait for the entry pause with every kind of budget: attach, launch  *)
(* with a timeout below one interval, of one interval and of several, and  *)
(* launch without a timeout.                                               *)
(***************************************************************************)
WaitTimeouts == {JSUndefined, JSNum(0), JSNum(40), JSNum(70), JSNum(130)}

WaitLaunchArgs ==
    [runtimeArgs : {<<>>},
     runtimeExecutable : {JSUndefined},
     program : {JSStr(<<"proj", "app.js">>)},
     stopOnEntry : {JSUndefined},
     timeout : WaitTimeouts,
     restart : {JSUndefined},
     port : {JSNum(9229)},
     noDebug : {JSUndefined},
     outputCapture : {JSUndefined}]

WaitAttachArgs ==
    [stopOnEntry : {JSUndefined}, timeout : {JSUndefined, JSNum(130)},
     restart : {JSUndefined}, port : {JSNum(9229)}]

launchWaiting == \E args \in WaitLaunchArgs : launch(args)

attachWaiting == \E args \in WaitAttachArgs : attach(args)

WaitNext ==
    \/ initialize
    \/ launchWaiting
    \/ attachWaiting
    \/ doAttachContinues
    \/ pollTick
    \/ debuggerPaused
    \/ evaluateResponse

SpecWait == Init /\ [][WaitNext]_vars

(***************************************************************************)
(* The initialized notification: launch and attach sessions in which the   *)
(* base adapter asks for the notification at the end of its doAttach.      *)
(***************************************************************************)
InitializedNext ==
    \/ initialize
    \/ launchWaiting
    \/ attachWaiting
    \/ doAttachAfterCore
    \/ pollTick
    \/ debuggerPaused
    \/ evaluateResponse

SpecInitialized == Init /\ [][InitializedNext]_vars

SessionNext ==
    \/ initialize
    \/ launchSession
    \/ attachSession
    \/ doAttachContinues
    \/ debuggerPaused
    \/ pollTick
    \/ evaluateResponse
    \/ addBreakpointsDone
    \/ configurationDone

SpecSession == Init /\ [][SessionNext]_vars

Next ==
    \/ initialize
    \/ launchTimeTravel
    \/ attachTimeTravel
    \/ stepBack
    \/ reverseContinue
    \/ ensureTraceTargetDone
    \/ writeTTDLogResolved
    \/ writeTTDLogRejected
    \/ directCallSettled

Spec == Init /\ [][Next]_vars

(***************************************************************************)
(* Vocabulary of the properties.                                           *)
(***************************************************************************)
Last(q) == q[Len(q)]

TerminalStates == {"complete", "fail"}

\* the status events carrying launch id `id`, in order
RECURSIVE EventsOf(_, _)
EventsOf(evs, id) ==
    IF evs = <<>> THEN <<>>
    ELSE IF Head(evs).id = id THEN <<Head(evs)>> \o EventsOf(Tail(evs), id)
    ELSE EventsOf(Tail(evs), id)

StatesOf(id) == [i \in 1..Len(EventsOf(events, id)) |-> EventsOf(events, id)[i].state]

TerminalCount(id) ==
    Cardinality({i \in 1..Len(events) :
                    events[i].id = id /\ events[i].state \in TerminalStates})

\* the client sends a stepBack or reverseContinue in this step
NewRequest == Len(reqs') = Len(reqs) + 1

\* the live-mode predicate as section 4.4 words it
LiveAsSpecified ==
    /\ Truthy(runtimeExecutableForTTD)
    /\ \E i \in 1..Len(runtimeArgsForTTD.s) :
          startsWith(runtimeArgsForTTD.s[i], TTDebugFlag)
    /\ ~ \A i \in 1..Len(runtimeArgsForTTD.s) :
          startsWith(runtimeArgsForTTD.s[i], ReplayDebugFlag)

\* the capture requests whose directory preparation failed
DirPrepFailed(l) == l.ensure # <<>> /\ ~l.ensure[1]

(***************************************************************************)
(* C1: a stepBack / reverseContinue that reaches                           *)
(* launchSetupForReverseExecution while the pending flag is set resolves   *)
(* at once to {launch:false}, leaves the id counter and the pending flag   *)
(* as they were, and sends no status event.                                *)
(***************************************************************************)
C1_PendingRequestRefused ==
    [][ (NewRequest /\ Truthy(isTTDLiveMode) /\ pendingTTDLaunch)
        => /\ Last(reqs').status = "resolved"
           /\ Last(reqs').value = LaunchFalse
           /\ idGenerator' = idGenerator
           /\ events' = events
           /\ pendingTTDLaunch' = pendingTTDLaunch ]_vars

C1_Witness ==
    \E i \in 1..Len(reqs) :
        /\ reqs[i].route = "capture"
        /\ reqs[i].launchID = NoLaunch
        /\ reqs[i].value = LaunchFalse
        /\ idGenerator = 1
        /\ Len(events) = 1

(***************************************************************************)
(* C2: a capture request never has more than one terminal status event     *)
(* (complete or fail), and once its promise has settled it has exactly     *)
(* one.                                                                    *)
(***************************************************************************)
C2_ExactlyOneTerminalEvent ==
    /\ \A id \in 0..(idGenerator - 1) : TerminalCount(id) <= 1
    /\ \A i \in 1..Len(reqs) :
          (reqs[i].launchID # NoLaunch /\ reqs[i].status = "resolved")
          => \A id \in reqs[i].launchID : TerminalCount(id) = 1

C2_Witness ==
    /\ Len(launches) = 2
    /\ launches[1].phase = "complete"
    /\ launches[2].phase = "failed"
    /\ \A i \in 1..2 : reqs[i].status = "resolved"

(***************************************************************************)
(* C3 (as claimed): whenever a terminal status event (complete or fail) is *)
(* sent, the pending flag is clear afterwards.                             *)
(***************************************************************************)
C3_PendingClearAfterTerminal ==
    [][ (Len(events') = Len(events) + 1 /\ Last(events').state \in TerminalStates)
        => ~pendingTTDLaunch' ]_vars

(***************************************************************************)
(* C4 (as claimed): a capture whose directory preparation failed has the   *)
(* status events start, fail and caused no writeTTDLog call, and the next  *)
(* live-mode request after it allocates a new id and sends a new start     *)
(* event.                                                                  *)
(***************************************************************************)
C4_DirPrepFailureThenRetry ==
    /\ [] (\A n \in 1..Len(launches) :
             DirPrepFailed(launches[n])
             => /\ StatesOf(launches[n].id) = <<"start", "fail">>
                /\ \A c \in 1..Len(calls) :
                      ~(calls[c].method = "TimeTravel.writeTTDLog"
                        /\ calls[c].req = launches[n].id))
    /\ [][ (/\ NewRequest
            /\ Truthy(isTTDLiveMode)
            /\ launches # <<>>
            /\ DirPrepFailed(Last(launches)))
           => /\ idGenerator' = idGenerator + 1
              /\ Len(events') = Len(events) + 1
              /\ Last(events').state = "start"
              /\ Last(events').id = idGenerator ]_vars

(***************************************************************************)
(* C5 (as claimed): when directory preparation fails, the payload of the   *)
(* fail event holds the message ensureTraceTarget returned.                *)
(***************************************************************************)
PayloadHolds(payload, msg) ==
    \/ payload = msg
    \/ payload = JSStr(<<"json", msg>>)

C5_FailPayloadNamesPath ==
    \A n \in 1..Len(launches) :
        DirPrepFailed(launches[n])
        => \E e \in 1..Len(events) :
              /\ events[e].id = launches[n].id
              /\ events[e].state = "fail"
              /\ PayloadHolds(events[e].payload, launches[n].ensure[2])

(***************************************************************************)
(* C6 (as claimed): in live mode a stepBack / reverseContinue never throws *)
(* to its caller, and a capture that did not complete resolves to          *)
(* {launch:false}.                                                         *)
(***************************************************************************)
C6_CaptureFailureNeverThrown ==
    \A i \in 1..Len(reqs) :
        reqs[i].route = "capture"
        => /\ reqs[i].status \in {"pending", "resolved"}
           /\ (reqs[i].status = "resolved"
                  => reqs[i].value \in {LaunchFalse, LaunchTrue})
           /\ \A id \in reqs[i].launchID :
                 (TerminalCount(id) = 1 /\ launches[id + 1].phase = "failed")
                 => (reqs[i].status = "resolved" /\ reqs[i].value = LaunchFalse)

(***************************************************************************)
(* C7: a stepBack / reverseContinue made while isTTDLiveMode() is true     *)
(* enters the capture protocol and sends no TimeTravel command; made while *)
(* it is false it sends the direct command (stepBack, resp. reverse) and   *)
(* starts no capture; and the promise of a direct request resolves with    *)
(* undefined whether the command succeeded or failed.                      *)
(***************************************************************************)
DirectMethod(op) ==
    IF op = "stepBack" THEN "TimeTravel.stepBack" ELSE "TimeTravel.reverse"

C7_DispatchOnLiveMode ==
    /\ [][ (NewRequest /\ isTTDLiveMode # JSThrows)
           => IF Truthy(isTTDLiveMode)
              THEN /\ calls' = calls
                   /\ \/ pendingTTDLaunch /\ Last(reqs').value = LaunchFalse
                      \/ /\ ~pendingTTDLaunch
                         /\ Len(events') = Len(events) + 1
                         /\ Last(events').state = "start"
              ELSE /\ Len(calls') = Len(calls) + 1
                   /\ Last(calls').method = DirectMethod(Last(reqs').op)
                   /\ events' = events
                   /\ idGenerator' = idGenerator
                   /\ pendingTTDLaunch' = pendingTTDLaunch ]_vars
    /\ [] (\A i \in 1..Len(reqs) :
             reqs[i].direct \in {"ok", "failed"}
             => reqs[i].status = "resolved" /\ reqs[i].value = JSUndefined)

C7_Witness ==
    /\ Len(reqs) = 2
    /\ reqs[1].op = "stepBack" /\ reqs[1].direct = "failed"
    /\ reqs[2].op = "reverseContinue" /\ reqs[2].direct = "ok"
    /\ Len(calls) = 2

(***************************************************************************)
(* C8: once launch recorded the time-travel settings, isTTDLiveMode() is   *)
(* truthy exactly when an executable was configured, some runtime argument *)
(* starts with --tt-debug and not every runtime argument starts with       *)
(* --replay-debug; and each request was routed accordingly.                *)
(***************************************************************************)
C8_LiveModePredicate ==
    runtimeArgsForTTD # JSUndefined
    => /\ Truthy(isTTDLiveMode) <=> LiveAsSpecified
       /\ \A i \in 1..Len(reqs) :
             (reqs[i].route = "capture") <=> LiveAsSpecified

C8_Witness ==
    /\ runtimeArgsForTTD # JSUndefined
    /\ Len(runtimeArgsForTTD.s) = 2
    /\ startsWith(runtimeArgsForTTD.s[1], ReplayDebugFlag)
    /\ startsWith(runtimeArgsForTTD.s[2], TTDebugFlag)
    /\ Truthy(runtimeExecutableForTTD)
    /\ reqs # <<>>
    /\ reqs[1].route = "capture"

(***************************************************************************)
(* C9: the entry pause event, once captured, is never replaced;            *)
(* while it is set waitingForEntryPause is false; waitingForEntryPause     *)
(* never goes from false back to true; and every Debugger.paused event     *)
(* received after the capture is handed to the base adapter's onPaused     *)
(* with the stop reason expected then, leaving entryPauseEvent as it was.  *)
(***************************************************************************)
C9_EntryPauseCapturedOnce ==
    /\ [][ entryPauseEvent # JSUndefined => entryPauseEvent' = entryPauseEvent ]_vars
    /\ [] (entryPauseEvent # JSUndefined => ~waitingForEntryPauseEvent)
    /\ [][ ~waitingForEntryPauseEvent => ~waitingForEntryPauseEvent' ]_vars
    /\ [][ \A e \in PausedEvents :
             (entryPauseEvent # JSUndefined /\ pausedEvent(e))
             => /\ clientPauses'.n = clientPauses.n + 1
                /\ clientPauses'.last.event = e
                /\ clientPauses'.last.reason = expectingStopReason ]_vars

C9_Witness ==
    /\ entryPauseEvent = PausedEvent(Location("script1", 0, 10))
    /\ npaused = 2
    /\ clientPauses.n = 1
    /\ clientPauses.last.event = PausedEvent(Location("script2", 7, 0))

(***************************************************************************)
(* C10: when an addBreakpoints call completes while an entry pause is      *)
(* captured and finishedConfig is false, and some response has an actual   *)
(* location with the script id and line number of the entry pause's top    *)
(* call frame (whatever the columns), then afterwards                      *)
(* continueAfterConfigDone is false and the expected stop reason is        *)
(* "breakpoint", whatever stopOnEntry was requested.                       *)
(***************************************************************************)
SameScriptAndLine(response, pause) ==
    /\ response # JSUndefined
    /\ response.actualLocation # JSUndefined
    /\ <<response.actualLocation.scriptId, response.actualLocation.lineNumber>>
          = <<pause.callFrames[1].location.scriptId,
              pause.callFrames[1].location.lineNumber>>

ListsMatching(pause) ==
    {r \in ResponseLists : \E i \in 1..Len(r) : SameScriptAndLine(r[i], pause)}

C10_BreakpointAtEntryForcesStop ==
    [][ (/\ entryPauseEvent # JSUndefined
         /\ ~finishedConfig
         /\ ~(~continueAfterConfigDone' /\ expectingStopReason' = JSStr("breakpoint")))
        => \A r \in ListsMatching(entryPauseEvent) : ~addBreakpoints(r) ]_vars

C10_Witness ==
    /\ ~isExtensionHost /\ ~attachMode
    /\ launchAttachArgs # JSUndefined
    /\ launchAttachArgs.stopOnEntry = JSBool(FALSE)
    /\ entryPauseEvent = PausedEvent(Location("script1", 0, 10))
    /\ bpParity
    /\ ~finishedConfig
    /\ ~continueAfterConfigDone
    /\ expectingStopReason = JSStr("breakpoint")

(***************************************************************************)
(* C11 (scenario B): in a launch with stopOnEntry false, once an           *)
(* addBreakpoints call made after the entry pause and before               *)
(* configurationDone has answered with a breakpoint on the entry location, *)
(* the session holds the stop until configurationDone, and                 *)
(* configurationDone then sends no resume and hands the captured entry     *)
(* pause to the client with stop reason "breakpoint".                      *)
(***************************************************************************)
LaunchWithoutStopOnEntry ==
    /\ launched /\ ~attachMode /\ ~isExtensionHost
    /\ launchAttachArgs.stopOnEntry = JSBool(FALSE)

BreakpointHeldAtEntry ==
    /\ LaunchWithoutStopOnEntry
    /\ entryPauseEvent # JSUndefined
    /\ ~finishedConfig
    /\ ~continueAfterConfigDone
    /\ expectingStopReason = JSStr("breakpoint")

C11_ScenarioB ==
    /\ [][ (/\ LaunchWithoutStopOnEntry
            /\ entryPauseEvent # JSUndefined
            /\ ~finishedConfig
            /\ \E r \in ListsMatching(entryPauseEvent) : addBreakpoints(r))
           => BreakpointHeldAtEntry' ]_vars
    /\ [][ (BreakpointHeldAtEntry /\ nconfigDone' = nconfigDone)
           => BreakpointHeldAtEntry' ]_vars
    /\ [][ (BreakpointHeldAtEntry /\ nconfigDone' = nconfigDone + 1)
           => /\ continues' = continues
              /\ clientPauses'.n = clientPauses.n + 1
              /\ clientPauses'.last.event = entryPauseEvent
              /\ clientPauses'.last.reason = JSStr("breakpoint") ]_vars

C11_Witness ==
    /\ LaunchWithoutStopOnEntry
    /\ bpParity
    /\ finishedConfig
    /\ nconfigDone = 1
    /\ continues = 0
    /\ clientPauses.n = 1
    /\ clientPauses.last.event = PausedEvent(Location("script1", 0, 10))
    /\ clientPauses.last.reason = JSStr("breakpoint")

(***************************************************************************)
(* C12 (scenario A): in a launch with stopOnEntry false, capturing the     *)
(* entry pause before configurationDone leaves continueAfterConfigDone     *)
(* true; while no addBreakpoints                                           *)
(* call completes it stays true until configurationDone; and               *)
(* configurationDone then sends one resume, hands no pause to the client   *)
(* and leaves continueAfterConfigDone true.                                *)
(***************************************************************************)
ResumeAfterEntry ==
    /\ LaunchWithoutStopOnEntry
    /\ entryPauseEvent # JSUndefined
    /\ ~finishedConfig
    /\ continueAfterConfigDone

C12_ScenarioA ==
    /\ [][ (/\ LaunchWithoutStopOnEntry
            /\ ~finishedConfig
            /\ entryPauseEvent = JSUndefined
            /\ entryPauseEvent' # JSUndefined)
           => ResumeAfterEntry' ]_vars
    /\ [][ (/\ ResumeAfterEntry
            /\ bpParity' = bpParity
            /\ nconfigDone' = nconfigDone)
           => ResumeAfterEntry' ]_vars
    /\ [][ (ResumeAfterEntry /\ nconfigDone' = nconfigDone + 1)
           => /\ finishedConfig'
              /\ continueAfterConfigDone'
              /\ continues' = continues + 1
              /\ clientPauses' = clientPauses ]_vars

C12_Witness ==
    /\ LaunchWithoutStopOnEntry
    /\ entryPauseEvent # JSUndefined
    /\ ~bpParity
    /\ finishedConfig
    /\ nconfigDone = 1
    /\ continueAfterConfigDone
    /\ continues = 1
    /\ clientPauses.n = 0

(***************************************************************************)
(* C16: once terminateSession has run, the entry-pause poll takes its      *)
(* timeout branch no more: no tick of the timer changes                    *)
(* waitingForEntryPauseEvent or continueAfterConfigDone, starts the        *)
(* process-details evaluation or sends the initialized notification.       *)
(***************************************************************************)
C16_TerminationCancelsWait ==
    [][ (nterminate > 0 /\ pollTick)
        => UNCHANGED <<waitingForEntryPauseEvent, continueAfterConfigDone,
                       evals, initializedEvents>> ]_vars

(***************************************************************************)
(* C17, as claimed: a terminateSession call kills nothing when the adapter *)
(* is an extension host and the arguments carry restart:true, or when      *)
(* restart mode is active and the call has no arguments; every other call  *)
(* of a launch session whose process has not been killed yet hands the     *)
(* spawned process to killTree.                                            *)
(***************************************************************************)
TerminateArguments == DisconnectArguments \cup {JSUndefined}

KillSkipped(args) ==
    \/ isExtensionHost /\ args # JSUndefined /\ args.restart = JSBool(TRUE)
    \/ Truthy(restartMode) /\ args = JSUndefined

NothingKilledYet == \A i \in 1..Len(kills) : ~kills[i].killed

C17_KilledUnlessRestart ==
    [][ \A args \in TerminateArguments, shutdown \in BOOLEAN :
          terminateSession(args, shutdown)
          => IF KillSkipped(args)
             THEN kills' = kills
             ELSE (launched /\ NothingKilledYet)
                  => kills' = Append(kills, [pid |-> SpawnedPid, killed |-> TRUE])
      ]_vars

(***************************************************************************)
(* C17, amended: the two restart cases kill nothing; every other call      *)
(* hands the recorded process id to killTree provided an id is recorded at *)
(* that point (it is not 0: not yet killed, nor dropped by an earlier      *)
(* call), it is not 1 and the session is not a normal attach; and no call  *)
(* kills anything else.                                                    *)
(***************************************************************************)
C17_KillDecision ==
    [][ \A args \in TerminateArguments, shutdown \in BOOLEAN :
          terminateSession(args, shutdown)
          => IF /\ ~KillSkipped(args)
                /\ Truthy(nodeProcessId)
                /\ nodeProcessId # JSNum(1)
                /\ ~normalAttachMode
             THEN kills' = Append(kills, [pid |-> nodeProcessId, killed |-> TRUE])
             ELSE \A i \in 1..Len(kills') : kills'[i].killed => i <= Len(kills)
      ]_vars

C17_Witness ==
    /\ launched /\ ~isExtensionHost
    /\ Truthy(restartMode)
    /\ nterminate = 2
    /\ kills = <<[pid |-> SpawnedPid, killed |-> TRUE]>>

(***************************************************************************)
(* C18: killTree is never called with process id 1: when killNodeProcess   *)
(* finds the recorded id to be 1 it logs and kills nothing.                *)
(***************************************************************************)
C18_NeverKillsPidOne ==
    \A i \in 1..Len(kills) : kills[i].pid = JSNum(1) => ~kills[i].killed

C18_Witness ==
    /\ nterminate > 0
    /\ \E i \in 1..Len(kills) : kills[i].pid = JSNum(1)

(***************************************************************************)
(* C19, as claimed: every terminateSession call made with restart mode     *)
(* active hands the descriptor {port: the session's port} to the host, and *)
(* every call made without restart mode hands none.                        *)
(***************************************************************************)
C19_RestartDescriptor ==
    [][ \A args \in TerminateArguments, shutdown \in BOOLEAN :
          terminateSession(args, shutdown)
          => restartArgs' = IF Truthy(restartMode)
                            THEN [t |-> "restart", port |-> port]
                            ELSE JSUndefined ]_vars

(***************************************************************************)
(* C19, amended: a terminateSession call hands the descriptor              *)
(* {port: the session's port} to the host when restart mode is active and  *)
(* the adapter is not shutting down at the time of the call; it hands none *)
(* when restart mode is not active or the shutdown has begun.              *)
(***************************************************************************)
C19_RestartDescriptorUnlessShutdown ==
    [][ \A args \in TerminateArguments, shutdown \in BOOLEAN :
          terminateSession(args, shutdown)
          => restartArgs' = IF Truthy(restartMode) /\ ~shutdown
                            THEN [t |-> "restart", port |-> port]
                            ELSE JSUndefined ]_vars

C19_Witness ==
    /\ nterminate = 2
    /\ inShutdown
    /\ restartArgs = [t |-> "restart", port |-> JSNum(9229)]

(***************************************************************************)
(* C13 (scenario C): in an attach session the wait for the entry pause     *)
(* ends, and once it has ended without an entry pause the initialized      *)
(* notification is eventually sent to the client.                          *)
(***************************************************************************)
C13_AttachWaitEnds ==
    /\ (attachMode /\ pollTimer = "running") ~> (pollTimer = "cleared")
    /\ (attachMode /\ pollTimer = "cleared" /\ entryPauseEvent = JSUndefined)
          ~> (initializedEvents > 0)

C13_Witness ==
    /\ attachMode
    /\ npaused = 0
    /\ pollTimer = "cleared"
    /\ entryPauseEvent = JSUndefined
    /\ ~waitingForEntryPauseEvent
    /\ initializedEvents = 1

(***************************************************************************)
(* C14: finishedConfig, once true, stays true through every later event    *)
(* (pauses, poll ticks, breakpoints, terminations, further requests), so   *)
(* it goes from false to true at most once; it does so only in a           *)
(* configurationDone request, and the first configurationDone request of a *)
(* connected session does set it.                                          *)
(***************************************************************************)
C14_FinishedConfigSetOnce ==
    /\ [][ finishedConfig => finishedConfig' ]_vars
    /\ [][ (~finishedConfig /\ finishedConfig')
           => nconfigDone' = nconfigDone + 1 ]_vars
    /\ [][ (chrome /\ nconfigDone' = nconfigDone + 1) => finishedConfig' ]_vars

C14_Witness ==
    /\ finishedConfig
    /\ nconfigDone = 1
    /\ nterminate > 0
    /\ npaused > 0
    /\ bpParity
    /\ pollTimer = "cleared"

(***************************************************************************)
(* C15: only the first configurationDone request of a session acts: a      *)
(* later one sends no resume to the target and hands no pause to the       *)
(* client.                                                                 *)
(***************************************************************************)
C15_ConfigurationDoneActsOnce ==
    [][ (nconfigDone >= 1 /\ nconfigDone' = nconfigDone + 1)
        => /\ continues' = continues
           /\ clientPauses' = clientPauses ]_vars

(***************************************************************************)
(* C20: in a launch that is not in noDebug mode, after a stderr chunk with *)
(* one of the two startup banners the adapter no longer handles early      *)
(* messages, and every chunk received after such a chunk has been sent to  *)
(* the client as it came, with or without outputCapture "std".             *)
(***************************************************************************)
HasBanner(chunk) == \E j \in 1..Len(chunk) : chunk[j] \in {"chrome", "dep"}

NoDebugMode == Truthy(launchAttachArgs.noDebug)

CaptureRequested == launchAttachArgs.outputCapture = JSStr("std")

C21_StderrVerbatim ==
    [][ \A data \in StderrChunks :
          (stderrData(data) /\ (NoDebugMode \/ CaptureRequested))
          => Last(stderrLog').sent = JSStr(data) ]_vars

(***************************************************************************)
(* C21, amended: in noDebug mode, and in a launch that recorded            *)
(* outputCapture "std" (_captureFromStd), every stderr chunk is sent to    *)
(* the client; it is sent exactly as it came in noDebug mode, after the    *)
(* handling of the early messages has ended, and when it holds neither     *)
(* banner nor the help line; a chunk with one of them that arrives in      *)
(* debug mode while the early messages are handled is sent stripped.       *)
(***************************************************************************)
HasEarlyMessage(chunk) ==
    \E j \in 1..Len(chunk) : chunk[j] \in {"chrome", "dep", "help"}

C21_StderrForwarded ==
    [][ \A data \in StderrChunks :
          (stderrData(data) /\ (NoDebugMode \/ captureFromStd))
          => /\ Last(stderrLog').sent # JSUndefined
             /\ IF \/ NoDebugMode
                   \/ ~handlingEarlyNodeMsgs
                   \/ ~HasEarlyMessage(data)
                THEN Last(stderrLog').sent = JSStr(data)
                ELSE Last(stderrLog').sent # JSStr(data) ]_vars

C21_Witness ==
    /\ captureFromStd
    /\ ~NoDebugMode
    /\ Len(stderrLog) = 2
    /\ stderrLog[1].chunk = <<"text", "chrome", "text">>
    /\ stderrLog[1].sent = JSStr(<<"text">>)
    /\ HasBanner(stderrLog[2].chunk)
    /\ stderrLog[2].sent = JSStr(stderrLog[2].chunk)

\* the configuration errors of a launch request: the runtime executable is
\* not found, the program or the working directory is relative or does not
\* exist, the console is not the internal one
ConfigurationError(args, fs) ==
    \/ ~fs.runtimeFound
    \/ NonEmpty(args.program)
          /\ (~isAbsolute(args.program.s) \/ ~fs.programExists)
    \/ NonEmpty(args.cwd) /\ (~isAbsolute(args.cwd.s) \/ ~fs.cwdExists)
    \/ args.console \notin {JSUndefined, JSStr("internalConsole")}

EnvFileError(args, fs) == NonEmpty(args.envFile) /\ ~fs.envFileLoads

\* the launch requests after which the adapter holds the arguments
\* recorded: they differ in how the program path was written
RequestsRecordedAs(recorded) ==
    {[recorded EXCEPT !.program = program] : program \in CheckedPrograms}

NothingSpawnedNorTerminated ==
    /\ nodeProcessId' = JSUndefined /\ launchPromise' = "none"
    /\ ~launched' /\ ~chrome'
    /\ nterminate' = nterminate /\ kills' = kills
    /\ terminateReason' = terminateReason

C22_SpawnErrorFailsLaunch ==
    [][ \A error \in ProcessErrors :
          processError(error)
          => /\ launchPromise' = "rejected"
             /\ ~chrome'
             /\ terminateReason' = ErrorReason(error) ]_vars

\* C24: the error, exit and close events of the process and the destruction
\* of execution context 1 each call terminateSession, each with a reason of
\* its own; the destruction of another context calls nothing.
C24_LifecycleEventsTerminate ==
    [][ /\ \A error \in ProcessErrors :
             processError(error)
             => nterminate' = nterminate + 1
                /\ terminateReason' = ErrorReason(error)
                /\ terminateReason' \notin {ExitReason, CloseReason, ProgramEndedReason}
        /\ processExit
             => nterminate' = nterminate + 1
                /\ terminateReason' = JSStr(<<"Target exited">>)
        /\ processClose
             => nterminate' = nterminate + 1
                /\ terminateReason' = JSStr(<<"Target closed">>)
        /\ \A id \in ContextIds :
             onExecutionContextDestroyed(id)
             => IF id = 1
                THEN nterminate' = nterminate + 1
                     /\ terminateReason' = JSStr(<<"Program ended">>)
                ELSE nterminate' = nterminate
                     /\ terminateReason' = terminateReason
                     /\ kills' = kills /\ restartArgs' = restartArgs ]_vars

C24_Witness ==
    /\ ignoredContexts = {2}
    /\ nterminate = 2
    /\ terminateReason = ProgramEndedReason
    /\ Len(kills) = 1

\* the orders in which the status events of one capture request may come
PhaseSequences ==
    { <<"start", "write", "complete">>, <<"start", "write", "fail">>,
      <<"start", "fail">> }

IsPrefix(p, q) == Len(p) <= Len(q) /\ \A i \in 1..Len(p) : p[i] = q[i]

\* the launch ids that status events were sent with
EventIds == {events[i].id : i \in 1..Len(events)}

\* C25: the status events sent with one capture request id are a prefix of
\* start, write, complete or of start, write, fail or of start, fail.
C25_EventsFollowPhases ==
    \A id \in EventIds \cup 0..(idGenerator - 1) :
        \E phases \in PhaseSequences : IsPrefix(StatesOf(id), phases)

C25_Witness ==
    /\ StatesOf(0) = <<"start", "write", "complete">>
    /\ StatesOf(1) = <<"start", "write", "fail">>

\* a capture request that sent its start event and no terminal event yet
InFlight(id) ==
    /\ \E i \in 1..Len(events) : events[i].id = id /\ events[i].state = "start"
    /\ TerminalCount(id) = 0

\* C26: at most one capture request is in flight at any time, and a
\* terminal event that comes with a change of the pending flag never comes
\* while a request other than its own is in flight.
C26_OneCaptureInFlight ==
    /\ [](Cardinality({id \in 0..(idGenerator - 1) : InFlight(id)}) <= 1)
    /\ [][ (/\ Len(events') = Len(events) + 1
            /\ Last(events').state \in TerminalStates
            /\ pendingTTDLaunch' # pendingTTDLaunch)
           => \A id \in 0..(idGenerator - 1) :
                 InFlight(id) => id = Last(events').id ]_vars

C26_Witness ==
    /\ Len(reqs) = 3
    /\ StatesOf(0) = <<"start", "write", "complete">>
    /\ InFlight(1)
    /\ reqs[3].launchID = NoLaunch /\ reqs[3].value = LaunchFalse

\* the client request that started capture request id
RequestOf(rs, id) == CHOOSE i \in 1..Len(rs) : id \in rs[i].launchID

\* C27: a complete event is sent only when writeTTDLog has resolved and the
\* index file exists in the prepared directory; its payload is the replay
\* descriptor with runtimeArgs = ["--replay-debug=<that directory>"] and the
\* runtime executable of the launch request, and the request resolves to
\* {launch:true}; without the index file a fail event is sent and the
\* request resolves to {launch:false}.
C27_CompleteNeedsIndexFile ==
    [][ /\ (Len(events') = Len(events) + 1 /\ Last(events').state = "complete")
           => \E n \in 1..Len(launches) : writeResolved(n, TRUE)
        /\ \A n \in 1..Len(launches), indexExists \in BOOLEAN :
              writeResolved(n, indexExists)
              => LET ev == Last(events')
                     req == reqs'[RequestOf(reqs, launches[n].id)]
                 IN /\ ev.id = launches[n].id
                    /\ req.status = "resolved"
                    /\ IF indexExists
                       THEN /\ ev.state = "complete"
                            /\ ev.payload.launch = TRUE
                            /\ ev.payload.config.runtimeArgs =
                                 << <<"--replay-debug=", launches[n].logDir.s>> >>
                            /\ ev.payload.config.runtimeExecutable =
                                 launchAttachArgs.runtimeExecutable
                            /\ req.value = LaunchTrue
                       ELSE /\ ev.state = "fail"
                            /\ req.value = LaunchFalse ]_vars

C27_Witness ==
    /\ Len(events) = 6
    /\ events[3].state = "complete"
    /\ events[3].payload.config.runtimeArgs =
          << <<"--replay-debug=", <<"proj", "_ttd_log_">> >> >>
    /\ events[6].state = "fail"
    /\ events[6].payload # JSStr("{}")
    /\ reqs[1].value = LaunchTrue /\ reqs[2].value = LaunchFalse

\* the wait for the entry pause has used up its ticks and no pause came
BudgetExhausted ==
    /\ pollTimer = "running"
    /\ entryPauseEvent = JSUndefined /\ ~Truthy(isTerminated)
    /\ count - 1 <= 0

\* the wait ended without an entry pause
TimedOut == ~waitingForEntryPauseEvent /\ entryPauseEvent = JSUndefined

\* the initialized notification is sent, or follows the evaluation just made
InitializedTriggered ==
    \/ initializedEvents' = initializedEvents + 1
    \/ /\ Len(evals') = Len(evals) + 1
       /\ Last(evals').thenInitialized

\* C28: the tick that finds the budget of the wait used up, with no entry
\* pause seen, sets _waitingForEntryPauseEvent and _continueAfterConfigDone
\* to false, clears the timer, leaves _entryPauseEvent unset and triggers
\* the initialized notification; with the timer cleared, the branch cannot
\* run again.
C28_TimeoutBranch ==
    /\ [](TimedOut => pollTimer = "cleared")
    /\ [][ (pollTick /\ BudgetExhausted)
           => /\ ~waitingForEntryPauseEvent'
              /\ ~continueAfterConfigDone'
              /\ pollTimer' = "cleared"
              /\ entryPauseEvent' = JSUndefined
              /\ InitializedTriggered ]_vars

C28_Witness ==
    /\ TimedOut
    /\ pollTimer = "cleared"
    /\ ~continueAfterConfigDone
    /\ initializedEvents = 1
    /\ npaused = 0

\* a step in which the timer ends and the timeout branch has acted
TimeoutBranchTaken ==
    /\ pollTimer = "running" /\ pollTimer' = "cleared"
    /\ <<waitingForEntryPauseEvent, continueAfterConfigDone, evals, initializedEvents>>'
          # <<waitingForEntryPauseEvent, continueAfterConfigDone, evals, initializedEvents>>

\* C29: once the wait has timed out, no Debugger.paused event is captured
\* as the entry pause; once an entry pause is captured, the timer never
\* takes its timeout branch.
C29_CaptureExcludesTimeout ==
    [][ /\ TimedOut => entryPauseEvent' = JSUndefined
        /\ entryPauseEvent # JSUndefined => ~TimeoutBranchTaken ]_vars

C29_Witness ==
    /\ TimedOut
    /\ npaused = 2
    /\ clientPauses.n = 2

\* C30: an addBreakpoints call that completes while no entry pause is
\* captured, or once _finishedConfig is true, leaves
\* _continueAfterConfigDone and _expectingStopReason as they were, whatever
\* locations it resolved.
C30_NoReconciliationOutsideWindow ==
    [][ \A responses \in ResponseLists :
          (addBreakpoints(responses)
             /\ (entryPauseEvent = JSUndefined \/ finishedConfig))
          => UNCHANGED <<continueAfterConfigDone, expectingStopReason>> ]_vars

C30_Witness ==
    /\ finishedConfig
    /\ entryPauseEvent # JSUndefined
    /\ continueAfterConfigDone
    /\ expectingStopReason = JSUndefined
    /\ bpParity
    /\ continues = 1

\* the number of ticks the wait is given: 10 when attaching, the timeout
\* divided by 50 ms and rounded down when launching with a numeric timeout,
\* 100 when launching without one
TickBudget ==
    IF attachMode THEN 10
    ELSE IF launchAttachArgs.timeout.t = "number"
    THEN launchAttachArgs.timeout.n \div 50
    ELSE 100

\* the number of the tick now due: count was set when the timer was
\* started and each tick before took one off
TickNumber == TickBudget - count + 1

ProcessDetailsObtained == loggedTargetVersion /\ Truthy(nodeProcessId)

C32_DeadDebuggeeTerminates ==
    /\ [](livenessTimers > 0 => ProcessDetailsObtained)
    /\ (ProcessDetailsObtained /\ ~processAlive)
          ~> (terminateReason = DiedReason)

(***************************************************************************)
(* C33: the initialized notification is never sent to the client while     *)
(* _waitingForEntryPauseEvent is true: the flag is cleared only by the     *)
(* capture of the entry pause or by the timeout of the wait, it is never   *)
(* set again, and every notification, the one the base adapter asks for    *)
(* during doAttach included, is sent with the flag cleared.                *)
(***************************************************************************)
EntryPauseCaptured ==
    entryPauseEvent = JSUndefined /\ entryPauseEvent' # JSUndefined

C33_InitializedAfterWait ==
    [][ /\ initializedEvents' # initializedEvents
             => ~waitingForEntryPauseEvent'
        /\ (waitingForEntryPauseEvent /\ ~waitingForEntryPauseEvent')
             => (EntryPauseCaptured \/ TimeoutBranchTaken)
        /\ ~waitingForEntryPauseEvent => ~waitingForEntryPauseEvent' ]_vars

\* the base adapter's call at the end of doAttach was honoured, the entry
\* pause having arrived while doAttach was still awaited
C33_Witness ==
    /\ attachMode
    /\ ~doAttachPending
    /\ entryPauseEvent # JSUndefined
    /\ initializedEvents = 2

(***************************************************************************)
(* C34: in every session that has a protocol connection, however it was    *)
(* established, isTTDLiveMode() can be evaluated (the time-travel launch   *)
(* settings it reads were recorded), and no stepBack / reverseContinue     *)
(* fails with the TypeError of an unrecorded setting instead of returning  *)
(* a promise that resolves.                                                *)
(***************************************************************************)
C34_LiveModeAlwaysEvaluates ==
    /\ chrome => isTTDLiveMode # JSThrows
    /\ \A i \in 1..Len(reqs) :
          ~(reqs[i].route = "none" /\ reqs[i].status = "threw")

(***************************************************************************)
(* C35: the process tree of the debuggee is killed at most once in a       *)
(* session, whatever the order of process events, context destruction,     *)
(* disconnect requests and late responses of the process-details           *)
(* evaluation: once a terminateSession call has cleared _nodeProcessId, no *)
(* later call kills again.                                                 *)
(***************************************************************************)
KillTreeCalls == {i \in 1..Len(kills) : kills[i].killed}

C35_KilledAtMostOnce == Cardinality(KillTreeCalls) <= 1

(***************************************************************************)
(* C36: with two process-details evaluations outstanding, the version is   *)
(* recorded (and with it reported) in one step only, since the flag is     *)
(* never cleared and a response that finds it set changes nothing; the     *)
(* liveness polling is started at most once; a pid recorded from the spawn *)
(* is not overwritten by the evaluated pid; and a response that is an      *)
(* exception or an error records nothing, so that the next entry pause,    *)
(* timeout or doAttach sends the evaluation again.                         *)
(***************************************************************************)
ResponseSettled == Len(evals') < Len(evals)

\* an event that calls getNodeProcessDetailsIfNeeded (lines 361, 585, 665)
DetailsRequested ==
    \/ doAttachPending /\ ~doAttachPending'
    \/ EntryPauseCaptured
    \/ TimeoutBranchTaken

C36_DetailsRecordedOnce ==
    /\ [](nodeTerminationPolls <= 1)
    /\ [][ /\ loggedTargetVersion
              => UNCHANGED <<loggedTargetVersion, nodeProcessId,
                             nodeTerminationPolls>>
           /\ (ResponseSettled /\ nodeProcessId = SpawnedPid)
              => nodeProcessId' = SpawnedPid
           /\ \A k \in 1..Len(evals), outcome \in {"exception", "error"} :
                 evaluateSettled(k, outcome)
                 => UNCHANGED <<loggedTargetVersion, nodeProcessId>>
           /\ (DetailsRequested /\ chrome /\ ~loggedTargetVersion)
              => Len(evals') = Len(evals) + 1 ]_vars

\* the version was recorded from one response while the evaluation of
\* another caller is still outstanding, in a session with a spawned process
C36_Witness ==
    /\ ~attachMode
    /\ loggedTargetVersion
    /\ nodeProcessId = SpawnedPid
    /\ Len(evals) >= 1

(***************************************************************************)
(* C37: a configurationDone that comes after the wait for the entry pause  *)
(* has timed out (no entry pause captured) sets _finishedConfig, and       *)
(* neither resumes the target nor hands a pause to the client; a           *)
(* configurationDone that comes without a protocol connection changes none *)
(* of _finishedConfig, _continueAfterConfigDone and _expectingStopReason.  *)
(***************************************************************************)
ConfigurationDoneHandled == nconfigDone' = nconfigDone + 1

C37_ConfigurationDoneAfterTimeout ==
    [][ ConfigurationDoneHandled
        => /\ TimedOut
              => /\ finishedConfig'
                 /\ continues' = continues
                 /\ clientPauses' = clientPauses
           /\ ~chrome
              => UNCHANGED <<finishedConfig, continueAfterConfigDone,
                             expectingStopReason>> ]_vars

\* the launch asked for no stop on entry, so a configurationDone before the
\* timeout would have resumed the target: this one came after it
C37_Witness ==
    /\ TimedOut
    /\ launchAttachArgs # JSUndefined
    /\ ~Truthy(launchAttachArgs.stopOnEntry)
    /\ finishedConfig
    /\ nconfigDone = 1
    /\ continues = 0
    /\ clientPauses.n = 0

====
